---- MODULE Spec2Model ----
(***************************************************************************)
(* Model of the vg-manager reconciler of the lvm-operator:                 *)
(*   pkg/vgmanager/vgmanager_controller.go  (Reconcile, reconcile,         *)
(*       processDelete, validateLVs, addThinPoolToVG, extendThinPool)      *)
(*   pkg/vgmanager/wipe_devices.go          (wipeDevicesIfNecessary)       *)
(*   unnamed/part_004                       (addDevicesToVG and the        *)
(*       device selection helpers)                                         *)
(* One LVMVolumeGroup ("vg1") is reconciled by the vg-manager of one node. *)
(* A pass is a sequence of steps (pc); every call to the host, to the lvmd *)
(* config file or to the API server may fail.                              *)
(***************************************************************************)
EXTENDS Integers, Sequences, FiniteSets, TLC

VARIABLES
    \* ---- the LVMVolumeGroup object (API server) ----
    vgObj,          \* [exists, deleting, finalizer, nodeSelector]
    specTP,         \* Spec.ThinPoolConfig: [set, Name, SizePercent]
    specSel,        \* Spec.DeviceSelector: [set, Paths, OptionalPaths, ForceWipe]
    nodeStatus,     \* LVMVolumeGroupNodeStatus: [obj, phase, devices, reason]
    \* ---- the host ----
    present,        \* block devices currently attached to the node
    hostVGs,        \* volume group name -> set of physical volumes ({} = no such group)
    hostLV,         \* the logical volume named like the thin pool in vg1
    registry,       \* the lvmd config file: [exists, classes]
    \* ---- the reconciler (locals of the running pass) ----
    pc,             \* position of the running pass, "idle" between passes
    lvmdConfig,     \* the loaded (and edited) lvmd config: [nil, classes]
    lvmdConfigWasMissing,
    catalog,        \* blockDevices: what LSBLK.ListBlockDevices answered last in this pass
    devices,        \* devices.Available
    vgs,            \* the result of LVM.ListVGs of this pass
    result,         \* what the last pass returned
    trace,          \* the calls the current/last pass issued, in order
    cleanPasses,    \* normal passes in a row that returned with no call failed
    mappings,       \* host: device-mapper children still mapped on /dev/sdc
    \* ---- pure functions under test ----
    fnIn, fnOut

vars == <<vgObj, specTP, specSel, nodeStatus, present, hostVGs, hostLV, registry,
          mappings, pc, lvmdConfig, lvmdConfigWasMissing, catalog, devices, vgs, result, trace,
          cleanPasses, fnIn, fnOut>>

apiVars   == <<vgObj, specTP, specSel, nodeStatus>>
hostVars  == <<present, hostVGs, hostLV, registry, mappings>>
localVars == <<lvmdConfig, lvmdConfigWasMissing, catalog, devices, vgs>>
fnVars    == <<fnIn, fnOut>>

----------------------------------------------------------------------------
(* The world the model runs in. *)

VGName  == "vg1"
OtherVG == "vg2"
VGNames == {VGName, OtherVG}

\* kernel names of the block devices a node can have
KNames == {"/dev/sda", "/dev/sdb", "/dev/sdc"}

\* device paths a selector can name
PathNames == {"/dev/sda", "/dev/disk/by-id/b", "/dev/sdc", "/dev/nope"}

\* the device node a path leads to
LinkTarget(path) ==
    CASE path = "/dev/sda"           -> "/dev/sda"
      [] path = "/dev/disk/by-id/b"  -> "/dev/sdb"
      [] path = "/dev/sdc"           -> "/dev/sdc"
      [] OTHER                       -> ""

\* filepath.EvalSymlinks: the kernel name behind a path, "" (an error) when
\* the path or its target does not exist
EvalSymlinks(path) == IF LinkTarget(path) \in present THEN LinkTarget(path) ELSE ""

\* size of one block device, in the unit of the lvm reports
DeviceSize == 10

SeqToSet(s) == {s[i] : i \in 1..Len(s)}

----------------------------------------------------------------------------
(* Values. *)

NoLV == [exists |-> FALSE, thin |-> FALSE, active |-> FALSE, size |-> 0, meta |-> 0]

NoStatus == [obj |-> FALSE, phase |-> "", devices |-> {}, reason |-> ""]

EmptyStatus == [obj |-> TRUE, phase |-> "", devices |-> {}, reason |-> ""]

NilConfig == [nil |-> TRUE, classes |-> <<>>]

\* ctrl.Result{} together with the returned error
Result(requeue, after, err) ==
    [kind |-> "returned", Requeue |-> requeue, RequeueAfter |-> after, err |-> err]

NoResult == [kind |-> "none", Requeue |-> FALSE, RequeueAfter |-> 0, err |-> FALSE]

\* the process died inside the pass (kill, node reboot, unrecovered panic)
Crashed == [kind |-> "crashed", Requeue |-> FALSE, RequeueAfter |-> 0, err |-> FALSE]

reconcileInterval == 15

reconcileAgain == Result(TRUE, reconcileInterval, FALSE)

\* the device class another LVMVolumeGroup of this node has in the lvmd config
OtherClass == [Name |-> OtherVG, VolumeGroup |-> OtherVG, Type |-> "thin", ThinPool |-> "tp2"]

\* one call of the pass as the trace keeps it: what was called, whether it
\* succeeded, what it answered or was given, the status phase persisted at
\* that time, and whether the device it was given (if one) was a physical
\* volume of vg1 on the host at that time
CallNote(op, ok, note) ==
    [op |-> op, ok |-> ok, note |-> note, phase |-> nodeStatus.phase,
     claimed |-> note \in hostVGs[VGName]]

Call(op, ok) == CallNote(op, ok, "")

\* r.WarningEvent: the event goes to the node status, the owners and the
\* LVMVolumeGroup; recording it cannot fail
WarningEvent(reason) == CallNote("WarningEvent", TRUE, reason)

----------------------------------------------------------------------------
(* The host: block devices, volume groups, logical volumes. *)

\* the volume groups LVM.ListVGs reports, in name order
ListVGs ==
    LET one(n) == IF hostVGs[n] = {} THEN <<>> ELSE <<[Name |-> n, PVs |-> hostVGs[n]]>>
    IN  one(VGName) \o one(OtherVG)

\* vg_size of the report of vg1
VgSize == DeviceSize * Cardinality(hostVGs[VGName])

----------------------------------------------------------------------------
(* Device selection and volume-group creation (unnamed/part_004).          *)
(* A block device is [KName, DevicePath, Children]; a volume group of a    *)
(* listing is [Name, PVs]; an error is a non-empty string.                 *)

BD(kname, children) == [KName |-> kname, DevicePath |-> "", Children |-> children]

EmptyBD == BD("", <<>>)

isDeviceAlreadyPartOfVG(vgsArg, diskName, vgName) ==
    \E i \in 1..Len(vgsArg) : vgsArg[i].Name = vgName /\ diskName \in vgsArg[i].PVs

RECURSIVE hasExactDisk(_, _)
hasExactDisk(blockDevices, deviceName) ==
    IF blockDevices = <<>> THEN [ok |-> FALSE, dev |-> EmptyBD]
    ELSE LET b == Head(blockDevices) IN
         IF b.KName = deviceName THEN [ok |-> TRUE, dev |-> b]
         ELSE LET sub == hasExactDisk(b.Children, deviceName) IN
              IF sub.ok THEN sub ELSE hasExactDisk(Tail(blockDevices), deviceName)

\* a check that looks for repeated paths among the required paths alone
checkDuplicateDeviceSelectorPaths_RequiredOnly(selector) ==
    LET all == selector.Paths
    IN  {all[i] : i \in {k \in 1..Len(all) : \E j \in 1..(k - 1) : all[j] = all[k]}}

\* the paths that occur more than once in Paths followed by OptionalPaths
\* (the paths the error names; empty: no error)
checkDuplicateDeviceSelectorPaths(selector) ==
    LET all == selector.Paths \o selector.OptionalPaths
    IN  {all[i] : i \in {k \in 1..Len(all) : \E j \in 1..(k - 1) : all[j] = all[k]}}

\* a lookup that compares the path as written, not the device it resolves
\* to, with the physical volumes of the group
getValidDevice_RawPath(devicePath, blockDevices, vgsArg, vgName) ==
    LET diskName == EvalSymlinks(devicePath)
        found    == hasExactDisk(blockDevices, diskName)
    IN  IF diskName = "" THEN [err |-> "symlink", dev |-> EmptyBD]
        ELSE IF isDeviceAlreadyPartOfVG(vgsArg, devicePath, vgName)
             THEN [err |-> "", dev |-> EmptyBD]
        ELSE IF ~found.ok THEN [err |-> "notfound", dev |-> EmptyBD]
        ELSE [err |-> "", dev |-> [found.dev EXCEPT !.DevicePath = devicePath]]

getValidDevice(devicePath, blockDevices, vgsArg, vgName) ==
    LET diskName == EvalSymlinks(devicePath)
        found    == hasExactDisk(blockDevices, diskName)
    IN  IF diskName = "" THEN [err |-> "symlink", dev |-> EmptyBD]
        ELSE IF isDeviceAlreadyPartOfVG(vgsArg, diskName, vgName)
             THEN [err |-> "", dev |-> EmptyBD]
        ELSE IF ~found.ok THEN [err |-> "notfound", dev |-> EmptyBD]
        ELSE [err |-> "", dev |-> [found.dev EXCEPT !.DevicePath = devicePath]]

\* the loop over DeviceSelector.Paths: the first error ends it
RECURSIVE matchRequired(_, _, _, _)
matchRequired(paths, blockDevices, vgsArg, vgName) ==
    IF paths = <<>> THEN [err |-> "", devs |-> <<>>, inVG |-> FALSE]
    ELSE LET r == getValidDevice(Head(paths), blockDevices, vgsArg, vgName) IN
         IF r.err # "" THEN [err |-> r.err, devs |-> <<>>, inVG |-> FALSE]
         ELSE LET rest == matchRequired(Tail(paths), blockDevices, vgsArg, vgName) IN
              IF rest.err # "" THEN rest
              ELSE IF r.dev.DevicePath = "" THEN [rest EXCEPT !.inVG = TRUE]
              ELSE [rest EXCEPT !.devs = <<r.dev>> \o rest.devs]

\* the loop over DeviceSelector.OptionalPaths with an error as critical as
\* that of a required path
matchOptional_Critical(paths, blockDevices, vgsArg, vgName) ==
    matchRequired(paths, blockDevices, vgsArg, vgName)

\* the loop over DeviceSelector.OptionalPaths: an error skips the path
RECURSIVE matchOptional(_, _, _, _)
matchOptional(paths, blockDevices, vgsArg, vgName) ==
    IF paths = <<>> THEN [err |-> "", devs |-> <<>>, inVG |-> FALSE]
    ELSE LET r    == getValidDevice(Head(paths), blockDevices, vgsArg, vgName)
             rest == matchOptional(Tail(paths), blockDevices, vgsArg, vgName)
         IN  IF r.err # "" THEN rest
             ELSE IF r.dev.DevicePath = "" THEN [rest EXCEPT !.inVG = TRUE]
             ELSE [rest EXCEPT !.devs = <<r.dev>> \o rest.devs]

\* filterMatchingDevices with a check that does not look at the devices
\* already in the group
filterMatchingDevices_NoneNew(blockDevices, vgsArg, vgName, selector) ==
    IF ~selector.set THEN [err |-> "", devs |-> blockDevices, duplicates |-> {}]
    ELSE IF checkDuplicateDeviceSelectorPaths(selector) # {}
         THEN [err |-> "duplicate", devs |-> <<>>,
               duplicates |-> checkDuplicateDeviceSelectorPaths(selector)]
    ELSE LET req == matchRequired(selector.Paths, blockDevices, vgsArg, vgName)
             opt == matchOptional(selector.OptionalPaths, blockDevices, vgsArg, vgName)
             filteredBlockDevices == req.devs \o opt.devs
         IN  IF req.err # "" THEN [err |-> req.err, devs |-> <<>>, duplicates |-> {}]
             ELSE IF /\ Len(selector.OptionalPaths) > 0
                     /\ Len(filteredBlockDevices) = 0
                  THEN [err |-> "atleast1", devs |-> <<>>, duplicates |-> {}]
             ELSE [err |-> "", devs |-> filteredBlockDevices, duplicates |-> {}]

\* filterMatchingDevices: the error ("" for none), the devices, and the
\* duplicated paths the error names
filterMatchingDevices(blockDevices, vgsArg, vgName, selector) ==
    IF ~selector.set THEN [err |-> "", devs |-> blockDevices, duplicates |-> {}]
    ELSE IF checkDuplicateDeviceSelectorPaths(selector) # {}
         THEN [err |-> "duplicate", devs |-> <<>>,
               duplicates |-> checkDuplicateDeviceSelectorPaths(selector)]
    ELSE LET req == matchRequired(selector.Paths, blockDevices, vgsArg, vgName)
             opt == matchOptional(selector.OptionalPaths, blockDevices, vgsArg, vgName)
             filteredBlockDevices == req.devs \o opt.devs
             devicesAlreadyInVG   == req.inVG \/ opt.inVG
         IN  IF req.err # "" THEN [err |-> req.err, devs |-> <<>>, duplicates |-> {}]
             ELSE IF /\ Len(selector.OptionalPaths) > 0
                     /\ Len(filteredBlockDevices) = 0
                     /\ ~devicesAlreadyInVG
                  THEN [err |-> "atleast1", devs |-> <<>>, duplicates |-> {}]
             ELSE [err |-> "", devs |-> filteredBlockDevices, duplicates |-> {}]

\* a filter step that looks at the children of a device only when the
\* device itself passes
RECURSIVE filterAvailableDevices_ParentFirst(_, _)
filterAvailableDevices_ParentFirst(blockDevices, passing) ==
    IF blockDevices = <<>> THEN <<>>
    ELSE LET b == Head(blockDevices) IN
         (IF b.KName \in passing
          THEN filterAvailableDevices_ParentFirst(b.Children, passing) \o <<b>>
          ELSE <<>>)
         \o filterAvailableDevices_ParentFirst(Tail(blockDevices), passing)

\* passing: the kernel names for which every filter of FilterMap answers
\* valid without an error
RECURSIVE filterAvailableDevices(_, _)
filterAvailableDevices(blockDevices, passing) ==
    IF blockDevices = <<>> THEN <<>>
    ELSE LET b == Head(blockDevices) IN
         filterAvailableDevices(b.Children, passing)
         \o (IF b.KName \in passing THEN <<b>> ELSE <<>>)
         \o filterAvailableDevices(Tail(blockDevices), passing)

\* the argument addDevicesToVG passes for a device
DeviceArg(device) == IF device.DevicePath # "" THEN device.DevicePath ELSE device.KName

\* a choice of the command by the physical volumes of the group, not by
\* its name in the list
addDevicesToVG_ByPVs(vgsArg, vgName, devs) ==
    LET vgFound == \E i \in 1..Len(vgsArg) : vgsArg[i].Name = vgName /\ vgsArg[i].PVs # {}
    IN  IF Len(devs) < 1
        THEN [err |-> TRUE, cmd |-> "", args |-> <<>>]
        ELSE [err  |-> FALSE,
              cmd  |-> IF vgFound THEN "/usr/sbin/vgextend" ELSE "/usr/sbin/vgcreate",
              args |-> <<vgName>> \o [i \in 1..Len(devs) |-> DeviceArg(devs[i])]]

\* the command run without a look at the number of devices
addDevicesToVG_NoGuard(vgsArg, vgName, devs) ==
    LET vgFound == \E i \in 1..Len(vgsArg) : vgsArg[i].Name = vgName
    IN  [err  |-> FALSE,
         cmd  |-> IF vgFound THEN "/usr/sbin/vgextend" ELSE "/usr/sbin/vgcreate",
         args |-> <<vgName>> \o [i \in 1..Len(devs) |-> DeviceArg(devs[i])]]

\* the host command addDevicesToVG runs (cmd = "" when it runs none)
addDevicesToVG(vgsArg, vgName, devs) ==
    LET vgFound == \E i \in 1..Len(vgsArg) : vgsArg[i].Name = vgName
    IN  IF Len(devs) < 1
        THEN [err |-> TRUE, cmd |-> "", args |-> <<>>]
        ELSE [err  |-> FALSE,
              cmd  |-> IF vgFound THEN "/usr/sbin/vgextend" ELSE "/usr/sbin/vgcreate",
              args |-> <<vgName>> \o [i \in 1..Len(devs) |-> DeviceArg(devs[i])]]

----------------------------------------------------------------------------
(* What the pass sees of the host and of the node status. *)

\* lsblk on a host with the disks pres attached and the mappings maps on
\* /dev/sdc: the device tree, in name order
BlockDevicesOf(pres, maps) ==
    LET kids(k) == IF k = "/dev/sdc" /\ maps # {} THEN <<BD("/dev/dm-0", <<>>)>> ELSE <<>>
        one(k)  == IF k \in pres THEN <<BD(k, kids(k))>> ELSE <<>>
    IN  one("/dev/sda") \o one("/dev/sdb") \o one("/dev/sdc")

\* LSBLK.ListBlockDevices
ListBlockDevices == BlockDevicesOf(present, mappings)

\* the devices the node status lists for vg1, in the shape of a listing
StatusVGs == <<[Name |-> VGName, PVs |-> nodeStatus.devices]>>

\* r.Filters: a device passes when it is a disk without children that is a
\* physical volume of no volume group (this one or a foreign one)
Passing ==
    {k \in KNames : /\ hasExactDisk(catalog, k).dev.Children = <<>>
                    /\ \A n \in VGNames : k \notin hostVGs[n]}

getNewDevicesToBeAdded ==
    filterMatchingDevices(catalog, StatusVGs, VGName, specSel)

\* the status entry a successful status update leaves
StatusAfter(phase, reason) ==
    [obj |-> TRUE, phase |-> phase, devices |-> hostVGs[VGName], reason |-> reason]

\* setVolumeGroup<Phase>Status; sok: the update reached the API server
setVolumeGroupStatus(phase, reason, sok) ==
    nodeStatus' = IF sok THEN StatusAfter(phase, reason) ELSE nodeStatus

StatusCall(phase, sok) == CallNote("setStatus", sok, phase)

\* the calls of this step join the trace
Log(calls) == trace' = trace \o calls

\* the longest row of passes without a failed call that is counted
MaxCleanPasses == 3

\* the row of clean passes after a pass that returned res with the calls log:
\* a normal pass in which every call succeeded adds one, any other ends it
CleanAfter(res, log) ==
    IF /\ res.kind = "returned"
       /\ log # <<>>
       /\ log[1].op = "reconcile"
       /\ \A i \in 1..Len(log) : log[i].ok
    THEN IF cleanPasses < MaxCleanPasses THEN cleanPasses + 1 ELSE cleanPasses
    ELSE 0

\* the pass returns: its locals are gone (trace' is set by the caller)
Return(res) ==
    /\ pc' = "idle"
    /\ result' = res
    /\ cleanPasses' = CleanAfter(res, trace')
    /\ lvmdConfig' = NilConfig
    /\ lvmdConfigWasMissing' = FALSE
    /\ catalog' = <<>>
    /\ devices' = <<>>
    /\ vgs' = <<>>

Goto(next) == pc' = next /\ UNCHANGED <<result, cleanPasses>>

\* an error returned together with the periodic requeue
Failure_WithRequeue == Result(TRUE, reconcileInterval, TRUE)

\* return ctrl.Result{}, err
Failure == Result(FALSE, 0, TRUE)

\* return ctrl.Result{}, nil
Success == Result(FALSE, 0, FALSE)

\* after calls, the pass tries to set the status to Failed and returns the error
FailWith(reason, sok, calls) ==
    /\ setVolumeGroupStatus("Failed", reason, sok)
    /\ Log(calls \o <<StatusCall("Failed", sok)>>)
    /\ Return(Failure)

\* after calls, the pass returns the error and leaves the status alone
ReturnError(calls) ==
    /\ Log(calls)
    /\ Return(Failure)
    /\ UNCHANGED nodeStatus

----------------------------------------------------------------------------
(* Initial states. *)

NoTP == [set |-> FALSE, Name |-> "", SizePercent |-> 0]

ThinPoolPercent == 50

TPChoices == {NoTP, [set |-> TRUE, Name |-> "tp1", SizePercent |-> ThinPoolPercent]}

NoSelector == [set |-> FALSE, Paths |-> <<>>, OptionalPaths |-> <<>>, ForceWipe |-> FALSE]

Selector(paths, optional, force) ==
    [set |-> TRUE, Paths |-> paths, OptionalPaths |-> optional, ForceWipe |-> force]

SelectorChoices ==
    { NoSelector,
      Selector(<<"/dev/sda">>, <<>>, FALSE),
      Selector(<<"/dev/sda">>, <<"/dev/disk/by-id/b">>, TRUE),
      Selector(<<"/dev/sdc">>, <<"/dev/sda">>, TRUE),
      Selector(<<"/dev/sdc">>, <<>>, FALSE),
      Selector(<<"/dev/sdc">>, <<>>, TRUE),
      Selector(<<"/dev/sda", "/dev/sdc">>, <<>>, FALSE),
      Selector(<<"/dev/sda", "/dev/sdc">>, <<>>, TRUE),
      Selector(<<"/dev/sda">>, <<"/dev/sdc">>, TRUE),
      Selector(<<>>, <<"/dev/disk/by-id/b", "/dev/nope">>, FALSE) }

NoFn == [fn |-> "none"]

Init ==
    /\ vgObj \in {[exists |-> TRUE, deleting |-> FALSE, finalizer |-> FALSE, nodeSelector |-> n] :
                    n \in {"none", "mismatch"}}
    /\ specTP \in TPChoices
    /\ specSel \in SelectorChoices
    /\ nodeStatus = NoStatus
    /\ present = {"/dev/sda", "/dev/sdc"}
    /\ hostVGs = [n \in VGNames |-> IF n = OtherVG THEN {"/dev/sdc"} ELSE {}]
    /\ hostLV = NoLV
    /\ mappings = {"/dev/dm-0"}
    /\ registry \in {[exists |-> FALSE, classes |-> <<>>],
                     [exists |-> TRUE, classes |-> <<OtherClass>>]}
    /\ pc = "idle"
    /\ lvmdConfig = NilConfig
    /\ lvmdConfigWasMissing = FALSE
    /\ catalog = <<>>
    /\ devices = <<>>
    /\ vgs = <<>>
    /\ result = NoResult
    /\ trace = <<>>
    /\ cleanPasses = 0
    /\ fnIn = NoFn
    /\ fnOut = NoFn

----------------------------------------------------------------------------
(* Reconcile: the entry of a pass (vgmanager_controller.go 104-153). *)

\* the LVMVolumeGroup is gone: nothing to do
Reconcile_NotFound ==
    /\ pc = "idle"
    /\ ~vgObj.exists
    /\ trace' = <<>>
    /\ Return(Success)
    /\ UNCHANGED <<apiVars, hostVars, fnVars>>

\* matchesThisNode with every node taken as matching
matchesThisNode_Always(selector, getOk) == [matches |-> getOk, err |-> ~getOk]

\* matchesThisNode: the node is read, and a selector, when there is one, is
\* matched against its labels ("match" / "mismatch": what
\* MatchNodeSelectorTerms answers for the selector); getOk: the node was read
matchesThisNode(selector, getOk) ==
    IF ~getOk THEN [matches |-> FALSE, err |-> TRUE]
    ELSE IF selector = "none" THEN [matches |-> TRUE, err |-> FALSE]
    ELSE [matches |-> selector = "match", err |-> FALSE]

\* the LVMVolumeGroup is for this node
nodeMatches == matchesThisNode(vgObj.nodeSelector, TRUE).matches

\* the node cannot be read
Reconcile_NodeGetFails ==
    /\ pc = "idle"
    /\ vgObj.exists
    /\ matchesThisNode(vgObj.nodeSelector, FALSE).err
    /\ trace' = <<Call("matchesThisNode", FALSE)>>
    /\ Return(Failure)
    /\ UNCHANGED <<apiVars, hostVars, fnVars>>

\* the node selector does not match the labels of this node: nothing to do
Reconcile_NodeMismatch ==
    /\ pc = "idle"
    /\ vgObj.exists
    /\ ~nodeMatches
    /\ trace' = <<CallNote("matchesThisNode", TRUE, "mismatch")>>
    /\ Return(Success)
    /\ UNCHANGED <<apiVars, hostVars, fnVars>>

\* the node status object is missing and cannot be created
Reconcile_StatusCreateFails ==
    /\ pc = "idle"
    /\ vgObj.exists
    /\ nodeMatches
    /\ ~nodeStatus.obj
    /\ trace' = <<Call("createStatus", FALSE)>>
    /\ Return(Failure)
    /\ UNCHANGED <<apiVars, hostVars, fnVars>>

\* the node status object as Reconcile leaves it (created when missing)
EnsuredStatus == IF nodeStatus.obj THEN nodeStatus ELSE EmptyStatus

\* the object carries a deletion timestamp: processDelete
Reconcile_Deleting ==
    /\ pc = "idle"
    /\ vgObj.exists
    /\ nodeMatches
    /\ vgObj.deleting
    /\ nodeStatus' = EnsuredStatus
    /\ trace' = <<Call("processDelete", TRUE)>>
    /\ result' = NoResult
    /\ cleanPasses' = 0
    /\ pc' = "processDelete"
    /\ UNCHANGED <<vgObj, specTP, specSel, hostVars, localVars, fnVars>>

\* the finalizer is missing: add it and go on with the pass
Reconcile_AddFinalizer_GoesOn ==
    /\ pc = "idle"
    /\ vgObj.exists
    /\ nodeMatches
    /\ ~vgObj.deleting
    /\ ~vgObj.finalizer
    /\ nodeStatus' = EnsuredStatus
    /\ \E ok \in BOOLEAN :
          /\ vgObj' = [vgObj EXCEPT !.finalizer = ok]
          /\ trace' = <<Call("reconcile", TRUE), Call("addFinalizer", ok)>>
    /\ result' = NoResult
    /\ pc' = "load"
    /\ UNCHANGED cleanPasses
    /\ UNCHANGED <<specTP, specSel, hostVars, localVars, fnVars>>

\* the finalizer is missing: add it and return
Reconcile_AddFinalizer ==
    /\ pc = "idle"
    /\ vgObj.exists
    /\ nodeMatches
    /\ ~vgObj.deleting
    /\ ~vgObj.finalizer
    /\ nodeStatus' = EnsuredStatus
    /\ \E ok \in BOOLEAN :
          /\ vgObj' = [vgObj EXCEPT !.finalizer = ok]
          /\ trace' = <<Call("addFinalizer", ok)>>
          /\ Return(Result(FALSE, 0, ~ok))
    /\ UNCHANGED <<specTP, specSel, hostVars, fnVars>>

\* a normal pass starts
Reconcile_Normal ==
    /\ pc = "idle"
    /\ vgObj.exists
    /\ nodeMatches
    /\ ~vgObj.deleting
    /\ vgObj.finalizer
    /\ nodeStatus' = EnsuredStatus
    /\ trace' = <<Call("reconcile", TRUE)>>
    /\ result' = NoResult
    /\ pc' = "load"
    /\ UNCHANGED cleanPasses
    /\ UNCHANGED <<vgObj, specTP, specSel, hostVars, localVars, fnVars>>

\* the step goes on to next after calls that succeeded
Step(next, calls) ==
    /\ Goto(next)
    /\ Log(calls)
    /\ UNCHANGED nodeStatus

----------------------------------------------------------------------------
(* reconcile: the normal pass (vgmanager_controller.go 155-342). *)

\* LVMD.Load and the snapshot of the loaded config
reconcile_Load ==
    /\ pc = "load"
    /\ \/ /\ lvmdConfig' = [nil |-> FALSE, classes |-> registry.classes]
          /\ lvmdConfigWasMissing' = ~registry.exists
          /\ Step("lsblk", <<Call("lvmd.Load", TRUE)>>)
          /\ UNCHANGED <<catalog, devices, vgs>>
       \/ \E sok \in BOOLEAN :
             FailWith("LVMDLoadFailed", sok, <<Call("lvmd.Load", FALSE)>>)
    /\ UNCHANGED <<vgObj, specTP, specSel, hostVars, fnVars>>

\* LSBLK.ListBlockDevices
reconcile_ListBlockDevices ==
    /\ pc = "lsblk"
    /\ \/ /\ catalog' = ListBlockDevices
          /\ Step("wipe", <<Call("lsblk", TRUE)>>)
          /\ UNCHANGED <<lvmdConfig, lvmdConfigWasMissing, devices, vgs>>
       \/ ReturnError(<<Call("lsblk", FALSE)>>)
    /\ UNCHANGED <<vgObj, specTP, specSel, hostVars, fnVars>>

\* the paths wipeDevicesIfNecessary hands to Wipefs.Wipe, in order, each with
\* its outcome; failW: the devices whose wipe fails; fatal: required paths
RECURSIVE wipeRun(_, _, _)
wipeRun(paths, failW, fatal) ==
    IF paths = <<>> THEN [calls |-> <<>>, err |-> FALSE]
    ELSE LET p    == Head(paths)
             rest == wipeRun(Tail(paths), failW, fatal)
             skip == \/ isDeviceAlreadyPartOfVG(StatusVGs, p, VGName)
                     \/ ~hasExactDisk(catalog, p).ok
         IN  IF skip THEN rest
             ELSE IF p \in failW /\ fatal
                  THEN [calls |-> <<[dev |-> p, ok |-> FALSE]>>, err |-> TRUE]
             ELSE [rest EXCEPT !.calls = <<[dev |-> p, ok |-> p \notin failW]>> \o @]

\* wipeDevicesIfNecessary without the look at the force-wipe flag
wipeDevicesIfNecessary_Ungated(failW) ==
    IF ~specSel.set THEN [calls |-> <<>>, err |-> FALSE]
    ELSE LET req == wipeRun(specSel.Paths, failW, TRUE)
             opt == wipeRun(specSel.OptionalPaths, failW, FALSE)
         IN  IF req.err THEN req
             ELSE [calls |-> req.calls \o opt.calls, err |-> FALSE]

\* wipeDevicesIfNecessary with the failure of an optional path returned like
\* that of a required one
wipeDevicesIfNecessary_OptionalFatal(failW) ==
    IF ~specSel.set \/ ~specSel.ForceWipe THEN [calls |-> <<>>, err |-> FALSE]
    ELSE LET req == wipeRun(specSel.Paths, failW, TRUE)
             opt == wipeRun(specSel.OptionalPaths, failW, TRUE)
         IN  IF req.err THEN req
             ELSE [calls |-> req.calls \o opt.calls, err |-> opt.err]

\* wipeDevicesIfNecessary: the calls it makes and whether it returns an error
wipeDevicesIfNecessary(failW) ==
    IF ~specSel.set \/ ~specSel.ForceWipe THEN [calls |-> <<>>, err |-> FALSE]
    ELSE LET req == wipeRun(specSel.Paths, failW, TRUE)
             opt == wipeRun(specSel.OptionalPaths, failW, FALSE)
         IN  IF req.err THEN req
             ELSE [calls |-> req.calls \o opt.calls, err |-> FALSE]

\* what Dmsetup.Remove may answer: the mapping was removed, there was no
\* such mapping (ErrReferenceNotFound), or another error
DmsetupOutcomes == {"removed", "absent", "error"}

\* the calls of wipeDevice for the paths handed to Wipefs.Wipe, in order:
\* the wipe and, after a wipe that succeeded, removeMapperReference for the
\* child the listed device has; dm: what Dmsetup.Remove answers
RECURSIVE wipeCalls(_, _)
wipeCalls(calls, dm) ==
    IF calls = <<>> THEN <<>>
    ELSE LET c    == Head(calls)
             kids == IF c.ok THEN hasExactDisk(catalog, c.dev).dev.Children ELSE <<>>
         IN  <<CallNote("wipefs", c.ok, c.dev)>>
             \o (IF kids # <<>> THEN <<CallNote("dmsetup", dm = "removed", dm)>> ELSE <<>>)
             \o wipeCalls(Tail(calls), dm)

\* wipe, and list the block devices again when a device was wiped; a wiped
\* disk is no physical volume any more, and a group without one is gone
reconcile_Wipe ==
    /\ pc = "wipe"
    /\ \E failW \in SUBSET SeqToSet(specSel.Paths \o specSel.OptionalPaths),
          dm \in DmsetupOutcomes, relistOk \in BOOLEAN :
          LET run    == wipeDevicesIfNecessary(failW)
              wiped  == {run.calls[i].dev : i \in {j \in 1..Len(run.calls) : run.calls[j].ok}}
              left   == [n \in VGNames |-> hostVGs[n] \ wiped]
              wipes  == wipeCalls(run.calls, dm)
              relist == IF wiped # {} /\ ~run.err THEN <<Call("lsblk", relistOk)>> ELSE <<>>
              after  == IF "/dev/sdc" \in wiped /\ dm # "error" THEN {} ELSE mappings
          IN  /\ hostVGs' = left
              /\ hostLV' = IF left[VGName] = {} THEN NoLV ELSE hostLV
              /\ mappings' = after
              /\ IF run.err \/ (wiped # {} /\ ~relistOk)
                 THEN ReturnError(wipes \o relist)
                 ELSE /\ catalog' = IF wiped # {} THEN BlockDevicesOf(present, after)
                                                ELSE catalog
                      /\ Step("select", wipes \o relist)
                      /\ UNCHANGED <<lvmdConfig, lvmdConfigWasMissing, devices, vgs>>
    /\ UNCHANGED <<vgObj, specTP, specSel, present, registry, fnVars>>

\* getNewDevicesToBeAdded and filterDevices
reconcile_Select ==
    /\ pc = "select"
    /\ LET sel == getNewDevicesToBeAdded IN
       IF sel.err # ""
       THEN ReturnError(<<>>)
       ELSE /\ devices' = filterAvailableDevices(sel.devs, Passing)
            /\ Step("listvgs", <<>>)
            /\ UNCHANGED <<lvmdConfig, lvmdConfigWasMissing, catalog, vgs>>
    /\ UNCHANGED <<vgObj, specTP, specSel, hostVars, fnVars>>

\* LVM.ListVGs
reconcile_ListVGs ==
    /\ pc = "listvgs"
    /\ \/ /\ vgs' = ListVGs
          /\ Step("decide", <<Call("vgs", TRUE)>>)
          /\ UNCHANGED <<lvmdConfig, lvmdConfigWasMissing, catalog, devices>>
       \/ ReturnError(<<Call("vgs", FALSE)>>)
    /\ UNCHANGED <<vgObj, specTP, specSel, hostVars, fnVars>>

metadataWarningPercentage == 95

\* the metadata comparison with the limit itself counted as an overflow
metadataOverflows_AtLimit(hundredths) == hundredths >= metadataWarningPercentage * 100

\* metadataPercentage > metadataWarningPercentage, on hundredths of a percent
metadataOverflows(hundredths) == hundredths > metadataWarningPercentage * 100

\* validateLVs on what the host reports; listOk: LVM.ListLVs succeeded
validateLVs(listOk) ==
    \/ ~specTP.set
    \/ /\ listOk
       /\ hostLV.exists
       /\ hostLV.thin
       /\ hostLV.active
       /\ hostLV.meta <= metadataWarningPercentage

\* the call of LVM.ListLVs validateLVs makes
validateCalls(listOk) == IF specTP.set THEN <<Call("lvs", listOk)>> ELSE <<>>

vgExistsInLVM ==
    \E i \in 1..Len(vgs) : vgs[i].Name = VGName /\ vgs[i].PVs # {}

\* no new devices and no volume group: Failed, without an event
reconcile_NoDevicesNoVG_NoEvent ==
    /\ pc = "decide"
    /\ Len(devices) = 0
    /\ ~vgExistsInLVM
    /\ \E sok \in BOOLEAN : FailWith("NoAvailableDevicesForVG", sok, <<>>)
    /\ UNCHANGED <<vgObj, specTP, specSel, hostVars, fnVars>>

\* no new devices and no volume group: Failed
reconcile_NoDevicesNoVG ==
    /\ pc = "decide"
    /\ Len(devices) = 0
    /\ ~vgExistsInLVM
    /\ \E sok \in BOOLEAN : FailWith("NoAvailableDevicesForVG", sok,
                                  <<WarningEvent("NoAvailableDevicesForVG")>>)
    /\ UNCHANGED <<vgObj, specTP, specSel, hostVars, fnVars>>

\* no new devices, the volume group exists: validate, and go on to the thin
\* pool when the validation failed
reconcile_NoNewDevices_Heals ==
    /\ pc = "decide"
    /\ Len(devices) = 0
    /\ vgExistsInLVM
    /\ \E listOk \in BOOLEAN, sok \in BOOLEAN :
          IF ~validateLVs(listOk)
          THEN Step("addtp", validateCalls(listOk)) /\ UNCHANGED localVars
          ELSE /\ setVolumeGroupStatus("Ready", "", sok)
               /\ Log(validateCalls(listOk) \o <<StatusCall("Ready", sok)>>)
               /\ Return(IF sok THEN reconcileAgain ELSE Failure)
    /\ UNCHANGED <<vgObj, specTP, specSel, hostVars, fnVars>>

\* no new devices, the volume group exists: validate, then Ready
reconcile_NoNewDevices ==
    /\ pc = "decide"
    /\ Len(devices) = 0
    /\ vgExistsInLVM
    /\ \E listOk \in BOOLEAN, sok \in BOOLEAN :
          IF ~validateLVs(listOk)
          THEN FailWith("InconsistentLVs", sok,
                        validateCalls(listOk) \o <<WarningEvent("InconsistentLVs")>>)
          ELSE /\ setVolumeGroupStatus("Ready", "", sok)
               /\ Log(validateCalls(listOk) \o <<StatusCall("Ready", sok)>>)
               /\ Return(IF sok THEN reconcileAgain ELSE Failure)
    /\ UNCHANGED <<vgObj, specTP, specSel, hostVars, fnVars>>

\* new devices, and the pass goes on to add them without a write of the
\* Progressing status
reconcile_Progressing_NoWrite ==
    /\ pc = "decide"
    /\ Len(devices) > 0
    /\ Step("addvg", <<>>)
    /\ UNCHANGED localVars
    /\ UNCHANGED <<vgObj, specTP, specSel, hostVars, fnVars>>

\* new devices: set the status to Progressing; return when that changed it
reconcile_Progressing ==
    /\ pc = "decide"
    /\ Len(devices) > 0
    /\ \E sok \in BOOLEAN :
          LET updated == sok /\ StatusAfter("Progressing", "") # nodeStatus IN
          /\ setVolumeGroupStatus("Progressing", "", sok)
          /\ Log(<<StatusCall("Progressing", sok)>>)
          /\ IF updated
             THEN Return(Result(TRUE, 0, FALSE))
             ELSE Goto("addvg") /\ UNCHANGED localVars
    /\ UNCHANGED <<vgObj, specTP, specSel, hostVars, fnVars>>

\* the host runs vgcreate/vgextend: the group must be absent/present, the
\* devices must exist and be physical volumes of no group
HostAccepts(cmd, pvs) ==
    /\ (cmd = "/usr/sbin/vgcreate") = (hostVGs[VGName] = {})
    /\ "" \notin pvs
    /\ \A n \in VGNames : pvs \cap hostVGs[n] = {}

\* addDevicesToVG with its error dropped: the pass goes on to the thin pool
reconcile_AddDevicesToVG_GoesOn ==
    /\ pc = "addvg"
    /\ \E execOk \in BOOLEAN :
          LET c     == addDevicesToVG(vgs, VGName, devices)
              pvs   == {EvalSymlinks(c.args[i]) : i \in 2..Len(c.args)}
              ok    == ~c.err /\ execOk /\ HostAccepts(c.cmd, pvs)
              calls == IF c.err THEN <<>> ELSE <<Call(c.cmd, ok)>>
          IN  /\ hostVGs' = IF ok THEN [hostVGs EXCEPT ![VGName] = @ \cup pvs] ELSE hostVGs
              /\ Step("addtp", calls)
              /\ UNCHANGED localVars
    /\ UNCHANGED <<vgObj, specTP, specSel, present, hostLV, registry, mappings, fnVars>>

\* addDevicesToVG: create or extend the volume group
reconcile_AddDevicesToVG ==
    /\ pc = "addvg"
    /\ \E execOk \in BOOLEAN, sok \in BOOLEAN :
          LET c     == addDevicesToVG(vgs, VGName, devices)
              pvs   == {EvalSymlinks(c.args[i]) : i \in 2..Len(c.args)}
              ok    == ~c.err /\ execOk /\ HostAccepts(c.cmd, pvs)
              calls == IF c.err THEN <<>> ELSE <<Call(c.cmd, ok)>>
          IN  IF ok
              THEN /\ hostVGs' = [hostVGs EXCEPT ![VGName] = @ \cup pvs]
                   /\ Step("addtp", calls)
                   /\ UNCHANGED localVars
              ELSE /\ FailWith("VGCreateOrExtendFailed", sok,
                                calls \o <<WarningEvent("VGCreateOrExtendFailed")>>)
                   /\ UNCHANGED hostVGs
    /\ UNCHANGED <<vgObj, specTP, specSel, present, hostLV, registry, mappings, fnVars>>

\* the size lvcreate/lvextend give a pool of sizePercent of the group
PoolSize(sizePercent) == (sizePercent * VgSize) \div 100

\* the pass dereferences a nil pointer
Panicked == [kind |-> "panicked", Requeue |-> FALSE, RequeueAfter |-> 0, err |-> TRUE]

\* addThinPoolToVG with Spec.ThinPoolConfig nil: config.Name panics
reconcile_AddThinPoolNil ==
    /\ pc = "addtp"
    /\ ~specTP.set
    /\ UNCHANGED trace
    /\ Return(Panicked)
    /\ UNCHANGED <<apiVars, hostVars, fnVars>>

\* the pairs (pool size, group size) up to 200 whose percentage is a whole
\* number that float64 misses: the quotient is rounded before it is
\* multiplied by 100, and the product falls just under the whole number
\* (29/100*100 = 28.999999999999996)
Float64Below ==
    {<<29, 50>>, <<29, 100>>, <<57, 100>>, <<58, 100>>, <<87, 150>>, <<58, 200>>,
     <<114, 200>>, <<116, 200>>}

\* the percentage computed exactly and cut to a whole number
CurrentPercent_Exact(thinPoolSize, vgSize) == (thinPoolSize * 100) \div vgSize

\* int((thinPoolSize/vgSize)*100) on float64 values, for whole sizes up to
\* 200 with thinPoolSize <= vgSize
CurrentPercent(thinPoolSize, vgSize) ==
    IF <<thinPoolSize, vgSize>> \in Float64Below
    THEN (thinPoolSize * 100) \div vgSize - 1
    ELSE (thinPoolSize * 100) \div vgSize

\* extendThinPool decides on the sizes of the reports
needsExtension == ~(specTP.SizePercent <= CurrentPercent(hostLV.size, VgSize))

\* the calls addThinPoolToVG makes; failing: the call that fails ("" = none)
addThinPoolCalls(failing) ==
    LET lvs   == <<Call("lvs", failing # "lvs")>>
        getvg == <<CallNote("vgs", failing # "vgs",
                            IF hostVGs[VGName] = {} THEN "notfound" ELSE "found")>>
    IN  IF failing = "lvs" THEN lvs
        ELSE IF ~hostLV.exists THEN lvs \o <<Call("lvcreate", failing # "lvcreate")>>
        ELSE IF ~hostLV.thin THEN lvs
        ELSE IF failing = "vgs" \/ hostVGs[VGName] = {} THEN lvs \o getvg
        ELSE IF needsExtension THEN lvs \o getvg \o <<Call("lvextend", failing # "lvextend")>>
        ELSE lvs \o getvg

\* addThinPoolToVG returns an error only when a call failed
addThinPoolFails_CallsOnly(failing) ==
    \E i \in 1..Len(addThinPoolCalls(failing)) : ~addThinPoolCalls(failing)[i].ok

\* addThinPoolToVG returns an error: a call failed, or the logical volume
\* of that name is no thin pool
addThinPoolFails(failing) ==
    \/ \E i \in 1..Len(addThinPoolCalls(failing)) : ~addThinPoolCalls(failing)[i].ok
    \/ hostLV.exists /\ ~hostLV.thin

\* addThinPoolToVG: the pool is created, extended or left as it is
reconcile_AddThinPool ==
    /\ pc = "addtp"
    /\ specTP.set
    /\ \E failing \in {"", "lvs", "vgs", "lvcreate", "lvextend"}, sok \in BOOLEAN :
          LET calls == addThinPoolCalls(failing)
              last  == calls[Len(calls)]
          IN  \* the failing call is one that is made
              /\ failing # "" => ~last.ok /\ last.op = failing
              /\ IF addThinPoolFails(failing)
                 THEN /\ FailWith("ThinPoolCreateOrExtendFailed", sok,
                                   calls \o <<WarningEvent("ThinPoolCreateOrExtendFailed")>>)
                      /\ UNCHANGED hostLV
                 ELSE /\ hostLV' =
                            IF last.op = "lvcreate"
                            THEN [exists |-> TRUE, thin |-> TRUE, active |-> TRUE,
                                  size |-> PoolSize(specTP.SizePercent), meta |-> 0]
                            ELSE IF last.op = "lvextend"
                            THEN [hostLV EXCEPT !.size = PoolSize(specTP.SizePercent)]
                            ELSE hostLV
                      /\ Step("validate", calls)
                      /\ UNCHANGED localVars
    /\ UNCHANGED <<vgObj, specTP, specSel, present, hostVGs, registry, mappings, fnVars>>

\* validateLVs after the mutation
reconcile_Validate ==
    /\ pc = "validate"
    /\ \E listOk \in BOOLEAN, sok \in BOOLEAN :
          IF validateLVs(listOk)
          THEN Step("lvmd", validateCalls(listOk)) /\ UNCHANGED localVars
          ELSE FailWith("InconsistentLVs", sok,
                        validateCalls(listOk) \o <<WarningEvent("InconsistentLVs")>>)
    /\ UNCHANGED <<vgObj, specTP, specSel, hostVars, fnVars>>

\* the device class the pass adds for the volume group
NewClass ==
    [Name |-> VGName, VolumeGroup |-> VGName,
     Type |-> IF specTP.set THEN "thin" ELSE "",
     ThinPool |-> IF specTP.set THEN specTP.Name ELSE ""]

HasClass(classes, name) == \E i \in 1..Len(classes) : classes[i].Name = name

\* a comparison of the two configs as values of one type
cmpEqual_Values(x, y) == x.value = y.value

\* cmp.Equal of two Go values, each [type, value]: values of different
\* types are never equal
cmpEqual(x, y) == x.type = y.type /\ x.value = y.value

\* add the device class and save the lvmd config when it changed; the note
\* of the save tells whether the saved content differs from the loaded one
reconcile_SaveLVMD ==
    /\ pc = "lvmd"
    /\ LET classes  == IF HasClass(lvmdConfig.classes, VGName)
                       THEN lvmdConfig.classes
                       ELSE Append(lvmdConfig.classes, NewClass)
           \* existingLvmdConfig := *lvmdConfig is a lvmd.Config, lvmdConfig a *lvmd.Config
           existing == [type |-> "lvmd.Config", value |-> lvmdConfig.classes]
           current  == [type |-> "*lvmd.Config", value |-> classes]
           note     == IF classes = lvmdConfig.classes THEN "unchanged" ELSE "changed"
       IN  IF cmpEqual(existing, current)
           THEN Step("ready", <<>>) /\ UNCHANGED <<registry, localVars>>
           ELSE \E saveOk \in BOOLEAN, sok \in BOOLEAN :
                   IF saveOk
                   THEN /\ registry' = [exists |-> TRUE, classes |-> classes]
                        /\ Step("ready", <<CallNote("lvmd.Save", TRUE, note)>>)
                        /\ UNCHANGED localVars
                   ELSE /\ FailWith("LVMDSaveFailed", sok,
                                     <<CallNote("lvmd.Save", FALSE, note)>>)
                        /\ UNCHANGED registry
    /\ UNCHANGED <<vgObj, specTP, specSel, present, hostVGs, hostLV, mappings, fnVars>>

\* setVolumeGroupReadyStatus and the requeue
reconcile_Ready ==
    /\ pc = "ready"
    /\ \E sok \in BOOLEAN :
          /\ setVolumeGroupStatus("Ready", "", sok)
          /\ Log(<<StatusCall("Ready", sok)>>)
          /\ Return(IF sok THEN reconcileAgain ELSE Failure)
    /\ UNCHANGED <<vgObj, specTP, specSel, hostVars, fnVars>>

----------------------------------------------------------------------------
(* processDelete: the deletion pass (vgmanager_controller.go 344-442). *)

\* a removal that keeps only what comes behind the device class
RemoveClass_KeepsTail(classes, name) ==
    IF \A i \in 1..Len(classes) : classes[i].Name # name THEN classes
    ELSE LET at == CHOOSE i \in 1..Len(classes) :
                       /\ classes[i].Name = name
                       /\ \A j \in 1..(i - 1) : classes[j].Name # name
         IN  SubSeq(classes, at + 1, Len(classes))

\* the device classes without the first one named name
RECURSIVE RemoveClass(_, _)
RemoveClass(classes, name) ==
    IF classes = <<>> THEN <<>>
    ELSE IF Head(classes).Name = name THEN Tail(classes)
    ELSE <<Head(classes)>> \o RemoveClass(Tail(classes), name)

\* LVMD.Load, and the removal of the device class from the loaded config
processDelete_Load ==
    /\ pc = "processDelete"
    /\ \/ /\ lvmdConfig' = IF registry.exists
                           THEN [nil |-> FALSE, classes |-> RemoveClass(registry.classes, VGName)]
                           ELSE NilConfig
          /\ Step("del_getvg", <<Call("lvmd.Load", TRUE)>>)
          /\ UNCHANGED <<lvmdConfigWasMissing, catalog, devices, vgs>>
       \/ ReturnError(<<Call("lvmd.Load", FALSE)>>)
    /\ UNCHANGED <<vgObj, specTP, specSel, hostVars, fnVars>>

\* a lookup that goes on to the group delete without a look at the thin pool
processDelete_GetVG_SkipPool ==
    /\ pc = "del_getvg"
    /\ \/ /\ hostVGs[VGName] = {}
          /\ Step("del_lvmd", <<CallNote("vgs", TRUE, "notfound")>>)
          /\ UNCHANGED localVars
       \/ /\ hostVGs[VGName] # {}
          /\ Step("del_vg", <<CallNote("vgs", TRUE, "found")>>)
          /\ UNCHANGED localVars
       \/ ReturnError(<<Call("vgs", FALSE)>>)
    /\ UNCHANGED <<vgObj, specTP, specSel, hostVars, fnVars>>

\* LVM.GetVG: found, not found, or a failure
processDelete_GetVG ==
    /\ pc = "del_getvg"
    /\ \/ /\ hostVGs[VGName] = {}
          /\ Step("del_lvmd", <<CallNote("vgs", TRUE, "notfound")>>)
          /\ UNCHANGED localVars
       \/ /\ hostVGs[VGName] # {}
          /\ Step(IF specTP.set THEN "del_lvexists" ELSE "del_vg",
                  <<CallNote("vgs", TRUE, "found")>>)
          /\ UNCHANGED localVars
       \/ ReturnError(<<Call("vgs", FALSE)>>)
    /\ UNCHANGED <<vgObj, specTP, specSel, hostVars, fnVars>>

\* an existence check whose answer is not used: the pool delete always follows
processDelete_LVExists_AlwaysDelete ==
    /\ pc = "del_lvexists"
    /\ \/ /\ Step("del_lv",
                  <<CallNote("lvs", TRUE, IF hostLV.exists THEN "exists" ELSE "absent")>>)
          /\ UNCHANGED localVars
       \/ ReturnError(<<Call("lvs", FALSE)>>)
    /\ UNCHANGED <<vgObj, specTP, specSel, hostVars, fnVars>>

\* LVM.LVExists for the thin pool
processDelete_LVExists ==
    /\ pc = "del_lvexists"
    /\ \/ /\ Step(IF hostLV.exists THEN "del_lv" ELSE "del_vg",
                  <<CallNote("lvs", TRUE, IF hostLV.exists THEN "exists" ELSE "absent")>>)
          /\ UNCHANGED localVars
       \/ ReturnError(<<Call("lvs", FALSE)>>)
    /\ UNCHANGED <<vgObj, specTP, specSel, hostVars, fnVars>>

\* LVM.DeleteLV of the thin pool
processDelete_DeleteLV ==
    /\ pc = "del_lv"
    /\ \/ /\ hostLV' = NoLV
          /\ Step("del_vg", <<Call("lvremove", TRUE)>>)
          /\ UNCHANGED localVars
       \/ /\ \E sok \in BOOLEAN :
                FailWith("ThinPoolDeleteFailed", sok, <<Call("lvremove", FALSE)>>)
          /\ UNCHANGED hostLV
    /\ UNCHANGED <<vgObj, specTP, specSel, present, hostVGs, registry, mappings, fnVars>>

\* a group delete whose failure is set in the status but not returned
processDelete_DeleteVG_IgnoreError ==
    /\ pc = "del_vg"
    /\ \/ /\ ~hostLV.exists
          /\ hostVGs' = [hostVGs EXCEPT ![VGName] = {}]
          /\ Step("del_lvmd", <<Call("vgremove", TRUE)>>)
          /\ UNCHANGED localVars
       \/ /\ \E sok \in BOOLEAN :
                /\ setVolumeGroupStatus("Failed", "VGDeleteFailed", sok)
                /\ Log(<<Call("vgremove", FALSE), StatusCall("Failed", sok)>>)
                /\ Goto("del_lvmd")
          /\ UNCHANGED <<hostVGs, localVars>>
    /\ UNCHANGED <<vgObj, specTP, specSel, present, hostLV, registry, mappings, fnVars>>

\* LVM.DeleteVG; the host refuses to remove a group that still holds a
\* logical volume
processDelete_DeleteVG ==
    /\ pc = "del_vg"
    /\ \/ /\ ~hostLV.exists
          /\ hostVGs' = [hostVGs EXCEPT ![VGName] = {}]
          /\ Step("del_lvmd", <<Call("vgremove", TRUE)>>)
          /\ UNCHANGED localVars
       \/ /\ \E sok \in BOOLEAN :
                FailWith("VGDeleteFailed", sok, <<Call("vgremove", FALSE)>>)
          /\ UNCHANGED hostVGs
    /\ UNCHANGED <<vgObj, specTP, specSel, present, hostLV, registry, mappings, fnVars>>

\* save the lvmd config without the device class, or delete the file with
\* the last device class; nothing when there was no file
processDelete_UpdateLVMD ==
    /\ pc = "del_lvmd"
    /\ IF lvmdConfig.nil
       THEN Step("del_status", <<>>) /\ UNCHANGED <<registry, localVars>>
       ELSE LET op == IF Len(lvmdConfig.classes) > 0 THEN "lvmd.Save" ELSE "lvmd.Delete" IN
            \E ok \in BOOLEAN :
               IF ok
               THEN /\ registry' = IF op = "lvmd.Save"
                                   THEN [exists |-> TRUE, classes |-> lvmdConfig.classes]
                                   ELSE [exists |-> FALSE, classes |-> <<>>]
                    /\ Step("del_status", <<Call(op, TRUE)>>)
                    /\ UNCHANGED localVars
               ELSE ReturnError(<<Call(op, FALSE)>>) /\ UNCHANGED registry
    /\ UNCHANGED <<vgObj, specTP, specSel, present, hostVGs, hostLV, mappings, fnVars>>

\* a status removal whose failure is not returned
processDelete_RemoveStatus_IgnoreError ==
    /\ pc = "del_status"
    /\ \E ok \in BOOLEAN :
          /\ nodeStatus' = IF ok THEN NoStatus ELSE nodeStatus
          /\ Log(<<Call("removeStatus", ok)>>)
          /\ Goto("del_fin")
          /\ UNCHANGED localVars
    /\ UNCHANGED <<vgObj, specTP, specSel, hostVars, fnVars>>

\* removeVolumeGroupStatus
processDelete_RemoveStatus ==
    /\ pc = "del_status"
    /\ \/ /\ nodeStatus' = NoStatus
          /\ Log(<<Call("removeStatus", TRUE)>>)
          /\ Goto("del_fin")
          /\ UNCHANGED localVars
       \/ ReturnError(<<Call("removeStatus", FALSE)>>)
    /\ UNCHANGED <<vgObj, specTP, specSel, hostVars, fnVars>>

\* controllerutil.RemoveFinalizer and the update of the object; without its
\* last finalizer the deleted object is gone
processDelete_RemoveFinalizer ==
    /\ pc = "del_fin"
    /\ IF vgObj.finalizer
       THEN \E ok \in BOOLEAN :
               /\ Log(<<Call("removeFinalizer", ok)>>)
               /\ vgObj' = IF ok THEN [vgObj EXCEPT !.finalizer = FALSE, !.exists = FALSE]
                           ELSE vgObj
               /\ Return(Result(FALSE, 0, ~ok))
       ELSE UNCHANGED <<vgObj, trace>> /\ Return(Success)
    /\ UNCHANGED <<specTP, specSel, nodeStatus, hostVars, fnVars>>

----------------------------------------------------------------------------
(* The environment. *)

\* the process dies inside a pass; what the pass did so far stays
Crash ==
    /\ pc # "idle"
    /\ UNCHANGED trace
    /\ Return(Crashed)
    /\ UNCHANGED <<apiVars, hostVars, fnVars>>

\* the user deletes the LVMVolumeGroup; without a finalizer it is gone at once
DeleteVolumeGroup ==
    /\ pc = "idle"
    /\ vgObj.exists
    /\ ~vgObj.deleting
    /\ vgObj' = [vgObj EXCEPT !.deleting = TRUE, !.exists = vgObj.finalizer]
    /\ UNCHANGED <<specTP, specSel, nodeStatus, hostVars, pc, localVars, result, trace,
                   cleanPasses, fnVars>>

\* a disk is attached to the node
AttachDevice ==
    /\ pc = "idle"
    /\ "/dev/sdb" \notin present
    /\ present' = present \cup {"/dev/sdb"}
    /\ UNCHANGED <<apiVars, hostVGs, hostLV, registry, mappings, pc, localVars, result, trace,
                   cleanPasses, fnVars>>

\* the size-percent a user may raise the thin pool of the spec to
RaisedPercent == 80

\* the user raises Spec.ThinPoolConfig.SizePercent of the LVMVolumeGroup
RaiseSizePercent ==
    /\ pc = "idle"
    /\ vgObj.exists
    /\ ~vgObj.deleting
    /\ specTP.set
    /\ specTP.SizePercent < RaisedPercent
    /\ specTP' = [specTP EXCEPT !.SizePercent = RaisedPercent]
    /\ UNCHANGED <<vgObj, specSel, nodeStatus, hostVars, pc, localVars, result, trace,
                   cleanPasses, fnVars>>

\* the LVMVolumeGroupNodeStatus of the node is deleted; the next Reconcile
\* creates an empty one
LoseNodeStatus ==
    /\ pc = "idle"
    /\ vgObj.exists
    /\ ~vgObj.deleting
    /\ nodeStatus.obj
    /\ nodeStatus' = NoStatus
    /\ UNCHANGED <<vgObj, specTP, specSel, hostVars, pc, localVars, result, trace,
                   cleanPasses, fnVars>>

Next ==
    \/ Reconcile_NotFound
    \/ Reconcile_NodeGetFails
    \/ Reconcile_NodeMismatch
    \/ Reconcile_StatusCreateFails
    \/ Reconcile_Deleting
    \/ Reconcile_AddFinalizer
    \/ Reconcile_Normal
    \/ reconcile_Load
    \/ reconcile_ListBlockDevices
    \/ reconcile_Wipe
    \/ reconcile_Select
    \/ reconcile_ListVGs
    \/ reconcile_NoDevicesNoVG
    \/ reconcile_NoNewDevices
    \/ reconcile_Progressing
    \/ reconcile_AddDevicesToVG
    \/ reconcile_AddThinPoolNil
    \/ reconcile_AddThinPool
    \/ reconcile_Validate
    \/ reconcile_SaveLVMD
    \/ reconcile_Ready
    \/ processDelete_Load
    \/ processDelete_GetVG
    \/ processDelete_LVExists
    \/ processDelete_DeleteLV
    \/ processDelete_DeleteVG
    \/ processDelete_UpdateLVMD
    \/ processDelete_RemoveStatus
    \/ processDelete_RemoveFinalizer
    \/ Crash
    \/ DeleteVolumeGroup
    \/ AttachDevice
    \/ RaiseSizePercent
    \/ LoseNodeStatus

Spec == Init /\ [][Next]_vars

----------------------------------------------------------------------------
(* What a pass did, read from its trace. *)

\* the trace is that of a deletion pass / of a normal pass
DeletionPass == trace # <<>> /\ trace[1].op = "processDelete"

NormalPass == trace # <<>> /\ trace[1].op = "reconcile"

\* the pass returned to the controller runtime
Returned == pc = "idle" /\ result.kind = "returned"

Calls == 1..Len(trace)

Issued(op) == \E i \in Calls : trace[i].op = op

Succeeded(op) == \E i \in Calls : trace[i].op = op /\ trace[i].ok

LvmdWrites == {"lvmd.Save", "lvmd.Delete"}

\* the place of a call among the teardown steps (0: no teardown step)
TeardownRank(op) ==
    CASE op = "lvremove"        -> 1
      [] op = "vgremove"        -> 2
      [] op \in LvmdWrites      -> 3
      [] op = "removeStatus"    -> 4
      [] op = "removeFinalizer" -> 5
      [] OTHER                  -> 0

\* the teardown steps of the trace, in the order they were issued
TeardownSteps ==
    LET step(c) == TeardownRank(c.op) > 0
        steps   == SelectSeq(trace, step)
    IN  [i \in 1..Len(steps) |-> steps[i].op]

\* the group lookup of the deletion pass answered not-found
GroupNotFound == \E i \in Calls : trace[i].op = "vgs" /\ trace[i].note = "notfound"

\* the existence check of the deletion pass found no thin pool
PoolAbsent == \E i \in Calls : trace[i].op = "lvs" /\ trace[i].ok /\ trace[i].note = "absent"

----------------------------------------------------------------------------
(* Deletion. *)

\* C1: in a deletion pass for a group with a thin pool configured the
\* teardown steps that are issued come in the order pool delete, group
\* delete, registry save-or-delete, status removal, finalizer removal, each
\* at most once; the group delete is issued only after the pool was found
\* absent or its delete succeeded, so never while the pool exists.
C1_TeardownOrder ==
    (DeletionPass /\ specTP.set) =>
        /\ \A i, j \in Calls :
              (i < j /\ TeardownRank(trace[i].op) > 0 /\ TeardownRank(trace[j].op) > 0)
                  => TeardownRank(trace[i].op) < TeardownRank(trace[j].op)
        /\ \A j \in Calls : trace[j].op = "vgremove" =>
              \E i \in 1..(j - 1) :
                  \/ trace[i].op = "lvs" /\ trace[i].ok /\ trace[i].note = "absent"
                  \/ trace[i].op = "lvremove" /\ trace[i].ok
        /\ (pc = "del_vg" \/ Issued("vgremove")) => ~hostLV.exists
        /\ (Returned /\ ~result.err /\ Issued("lvremove")) =>
              \E w \in LvmdWrites :
                  TeardownSteps \in
                      { <<"lvremove", "vgremove", w, "removeStatus", "removeFinalizer">>,
                        <<"lvremove", "vgremove", "removeStatus", "removeFinalizer">> }

\* a deletion pass that removed the pool, the group, the device class, the
\* status and the finalizer, in that order
C1_Witness ==
    /\ DeletionPass
    /\ specTP.set
    /\ Returned
    /\ TeardownSteps = <<"lvremove", "vgremove", "lvmd.Save", "removeStatus", "removeFinalizer">>
    /\ \A i \in Calls : trace[i].ok

\* C2: a deletion pass in which a call failed returns the failure and leaves
\* the finalizer on the object; the finalizer removal is issued only after
\* every earlier call of the pass succeeded; the status removal is issued
\* only after every earlier call succeeded, with the group and the pool gone
\* from the host and the device class gone from the lvmd config.
C2_FailureKeepsFinalizer ==
    DeletionPass =>
        /\ (Returned /\ \E i \in Calls : ~trace[i].ok) =>
              /\ result.err
              /\ vgObj.exists
              /\ vgObj.finalizer
        /\ \A j \in Calls : trace[j].op \in {"removeFinalizer", "removeStatus"} =>
              \A i \in 1..(j - 1) : trace[i].ok
        /\ Issued("removeStatus") =>
              /\ hostVGs[VGName] = {}
              /\ ~hostLV.exists
              /\ ~HasClass(registry.classes, VGName)
        /\ ~vgObj.exists => Succeeded("removeFinalizer")

\* a deletion pass that failed at the save of the lvmd config: the failure
\* is returned, the finalizer and the status are still there
C2_Witness ==
    /\ DeletionPass
    /\ Returned
    /\ \E i \in Calls : trace[i].op = "lvmd.Save" /\ ~trace[i].ok
    /\ result.err
    /\ vgObj.finalizer
    /\ nodeStatus.obj

\* C3: in a deletion pass a step whose target is gone is skipped without an
\* error. After the existence check found no pool, no pool delete is issued
\* and the next call is the group delete; after the lookup answered
\* not-found neither delete (nor the existence check) is issued and the next
\* call is the registry write or the status removal; the pass does not
\* return at the skip.
C3_TeardownResumes ==
    DeletionPass =>
        /\ \A i \in Calls :
              (trace[i].op = "lvs" /\ trace[i].ok /\ trace[i].note = "absent") =>
                  /\ ~Issued("lvremove")
                  /\ i < Len(trace) => trace[i + 1].op = "vgremove"
                  /\ i = Len(trace) => (pc = "del_vg" \/ result = Crashed)
        /\ \A i \in Calls :
              (trace[i].op = "vgs" /\ trace[i].note = "notfound") =>
                  /\ trace[i].ok
                  /\ ~Issued("lvs") /\ ~Issued("lvremove") /\ ~Issued("vgremove")
                  /\ i < Len(trace) => trace[i + 1].op \in LvmdWrites \cup {"removeStatus"}
                  /\ i = Len(trace) => (pc \in {"del_lvmd", "del_status"} \/ result = Crashed)
        /\ (Returned /\ (GroupNotFound \/ PoolAbsent) /\ \A i \in Calls : trace[i].ok) =>
              /\ ~result.err
              /\ Succeeded("removeStatus")
              /\ Succeeded("removeFinalizer")

\* a deletion pass that found the group gone (an earlier pass had removed it
\* and then failed) and went on to remove the device class, the status and
\* the finalizer
C3_Witness ==
    /\ DeletionPass
    /\ specTP.set
    /\ Returned
    /\ GroupNotFound
    /\ trace[1].phase = "Ready"
    /\ TeardownSteps = <<"lvmd.Save", "removeStatus", "removeFinalizer">>
    /\ ~vgObj.exists

\* a step of a deletion pass that changes the lvmd config file
RegistryChangedInDeletion ==
    /\ pc \in {"processDelete", "del_getvg", "del_lvexists", "del_lv", "del_vg",
               "del_lvmd", "del_status", "del_fin"}
    /\ registry' # registry

\* C4: in a deletion pass the lvmd config file is saved or deleted only
\* after the group delete succeeded or the lookup answered not-found in that
\* pass; a pass whose pool delete or group delete failed issues no write of
\* the file, and no step of it changes the file.
C4_RegistryAfterGroup ==
    /\ [](DeletionPass =>
            /\ \A j \in Calls : trace[j].op \in LvmdWrites =>
                  \E i \in 1..(j - 1) :
                      \/ trace[i].op = "vgremove" /\ trace[i].ok
                      \/ trace[i].op = "vgs" /\ trace[i].ok /\ trace[i].note = "notfound"
            /\ (\E i \in Calls : trace[i].op \in {"lvremove", "vgremove"} /\ ~trace[i].ok) =>
                  \A w \in LvmdWrites : ~Issued(w))
    /\ [][RegistryChangedInDeletion =>
            /\ pc = "del_lvmd"
            /\ Succeeded("vgremove") \/ GroupNotFound
            /\ \A i \in Calls : trace[i].ok]_vars

\* a deletion pass whose group delete failed: the device class is still in
\* the lvmd config file
C4_Witness ==
    /\ DeletionPass
    /\ Returned
    /\ \E i \in Calls : trace[i].op = "vgremove" /\ ~trace[i].ok
    /\ HasClass(registry.classes, VGName)
    /\ hostVGs[VGName] # {}

----------------------------------------------------------------------------
(* The normal pass. *)

\* the calls that change the host
HostMutations ==
    {"wipefs", "/usr/sbin/vgcreate", "/usr/sbin/vgextend", "lvcreate", "lvextend"}

\* the pass wrote the Progressing status and that changed the status
FlippedToProgressing ==
    \E i \in Calls :
        /\ trace[i].op = "setStatus"
        /\ trace[i].note = "Progressing"
        /\ trace[i].ok
        /\ trace[i].phase # "Progressing"

\* return ctrl.Result{Requeue: true}, nil
RequeueNow == Result(TRUE, 0, FALSE)

\* C5: whenever a normal pass issues a host mutation (wipe, group create or
\* extend, pool create or extend) the persisted phase is Progressing at that
\* time; the pass that flips the phase to Progressing issues no host
\* mutation and returns an immediate requeue.
C5_ProgressingBeforeMutation ==
    NormalPass =>
        /\ \A i \in Calls : trace[i].op \in HostMutations => trace[i].phase = "Progressing"
        /\ FlippedToProgressing =>
              /\ \A i \in Calls : trace[i].op \notin HostMutations
              /\ Returned => result = RequeueNow

\* the same for the group and the pool alone, the wipe left aside: they are
\* created or extended only while the persisted phase is Progressing
C5_GroupMutationWhileProgressing ==
    NormalPass =>
        \A i \in Calls :
            trace[i].op \in HostMutations \ {"wipefs"} => trace[i].phase = "Progressing"

\* the work of a pass over the group is complete: phase Ready, the thin
\* pool (when configured) there, the device class in the lvmd config file
WorkComplete ==
    /\ nodeStatus.phase = "Ready"
    /\ specTP.set => hostLV.exists
    /\ HasClass(registry.classes, VGName)

\* C6: once the group of a spec with a thin pool exists on the host, passes
\* in which no call fails complete the remaining work: after MaxCleanPasses
\* such passes in a row, the last of which is not the one that only flips
\* the phase to Progressing, the thin pool exists, the device class is in
\* the lvmd config file and the phase is Ready.
C6_CleanPassesComplete ==
    (/\ pc = "idle"
     /\ NormalPass
     /\ specTP.set
     /\ cleanPasses >= MaxCleanPasses
     /\ result # RequeueNow
     /\ hostVGs[VGName] # {}) => WorkComplete

LastCall == trace[Len(trace)]

----------------------------------------------------------------------------
(* The device helpers on their own: each is applied to inputs drawn from    *)
(* bounded sets (SpecDevices).                                              *)

\* the longest device list and the longest path list of an input
MaxDevs == 2

MaxPaths == 2

SeqsUpTo(S, n) == UNION {[1..k -> S] : k \in 0..n}

\* a block device as the pass hands it to addDevicesToVG
DeviceChoices ==
    {[KName |-> k, DevicePath |-> p, Children |-> <<>>] :
        k \in KNames, p \in {"", "/dev/disk/by-id/b"}}

\* the lists LVM.ListVGs can answer: vg1 absent, or there with any physical
\* volumes (none included); vg2 absent or there
VGListings ==
    LET first  == {<<>>} \cup {<<[Name |-> VGName, PVs |-> pvs]>> : pvs \in SUBSET KNames}
        second == {<<>>, <<[Name |-> OtherVG, PVs |-> {"/dev/sdc"}]>>}
    IN  {a \o b : a \in first, b \in second}

\* no selector, or one of required and optional paths
SelectorInputs ==
    {NoSelector} \cup
    {Selector(paths, optional, FALSE) :
        paths \in SeqsUpTo(PathNames, MaxPaths), optional \in SeqsUpTo(PathNames, MaxPaths)}

\* the inputs: a group name, a list of groups and a device list for
\* addDevicesToVG, CreateVG and ExtendVG; a list of groups and a selector
\* for filterMatchingDevices
DeviceInputs ==
    {[kind |-> "devs", name |-> n, vgs |-> l, devs |-> d, sel |-> NoSelector] :
        n \in {"", VGName, OtherVG}, l \in VGListings, d \in SeqsUpTo(DeviceChoices, MaxDevs)}

SelectionInputs ==
    {[kind |-> "sel", name |-> VGName, vgs |-> l, devs |-> <<>>, sel |-> x] :
        l \in VGListings, x \in SelectorInputs}

\* what a helper answered
Out(fn, failed, cmd, args, devs, again) ==
    [fn |-> fn, failed |-> failed, cmd |-> cmd, args |-> args, devs |-> devs, again |-> again]

NoAgain == [failed |-> FALSE, devs |-> <<>>]

NoOut == Out("none", FALSE, "", <<>>, <<>>, NoAgain)

\* HostLVM.CreateVG: a group without a name or without physical volumes is
\* rejected before any command is run
CreateVG(vg) ==
    IF vg.Name = "" \/ Len(vg.PVs) = 0
    THEN [err |-> TRUE, cmd |-> "", args |-> <<>>]
    ELSE [err |-> FALSE, cmd |-> "/usr/sbin/vgcreate", args |-> <<vg.Name>> \o vg.PVs]

\* HostLVM.ExtendVG: no new physical volumes are rejected before any command
\* is run
ExtendVG(vg, pvs) ==
    IF Len(pvs) = 0
    THEN [err |-> TRUE, cmd |-> "", args |-> <<>>]
    ELSE [err |-> FALSE, cmd |-> "/usr/sbin/vgextend", args |-> <<vg.Name>> \o pvs]

\* the list of groups after the devices were added to the group as its
\* physical volumes
AfterAdding(vgsArg, vgName, devs) ==
    LET pvs == {devs[i].KName : i \in 1..Len(devs)} IN
    IF \E i \in 1..Len(vgsArg) : vgsArg[i].Name = vgName
    THEN [i \in 1..Len(vgsArg) |->
            IF vgsArg[i].Name = vgName
            THEN [vgsArg[i] EXCEPT !.PVs = @ \cup pvs]
            ELSE vgsArg[i]]
    ELSE IF pvs = {} THEN vgsArg
    ELSE <<[Name |-> vgName, PVs |-> pvs]>> \o vgsArg

mainVars == <<apiVars, hostVars, pc, localVars, result, trace, cleanPasses>>

InitDevices ==
    /\ vgObj = [exists |-> TRUE, deleting |-> FALSE, finalizer |-> TRUE, nodeSelector |-> "none"]
    /\ specTP = NoTP
    /\ specSel = NoSelector
    /\ nodeStatus = EmptyStatus
    /\ fnIn \in DeviceInputs \cup SelectionInputs
    /\ present \in (IF fnIn.kind = "sel" THEN {{"/dev/sda", "/dev/sdc"}, KNames} ELSE {KNames})
    /\ hostVGs = [n \in VGNames |-> IF n = OtherVG THEN {"/dev/sdc"} ELSE {}]
    /\ hostLV = NoLV
    /\ mappings = {"/dev/dm-0"}
    /\ registry = [exists |-> FALSE, classes |-> <<>>]
    /\ pc = "idle"
    /\ lvmdConfig = NilConfig
    /\ lvmdConfigWasMissing = FALSE
    /\ catalog = <<>>
    /\ devices = <<>>
    /\ vgs = <<>>
    /\ result = NoResult
    /\ trace = <<>>
    /\ cleanPasses = 0
    /\ fnOut = NoOut

Apply_addDevicesToVG ==
    /\ fnIn.kind = "devs"
    /\ LET r == addDevicesToVG(fnIn.vgs, fnIn.name, fnIn.devs)
       IN  fnOut' = Out("addDevicesToVG", r.err, r.cmd, r.args, <<>>, NoAgain)
    /\ UNCHANGED <<mainVars, fnIn>>

\* the physical volumes the adapter is handed for the devices
PvNames(devs) == [i \in 1..Len(devs) |-> DeviceArg(devs[i])]

Apply_CreateVG ==
    /\ fnIn.kind = "devs"
    /\ LET r == CreateVG([Name |-> fnIn.name, PVs |-> PvNames(fnIn.devs)])
       IN  fnOut' = Out("CreateVG", r.err, r.cmd, r.args, <<>>, NoAgain)
    /\ UNCHANGED <<mainVars, fnIn>>

Apply_ExtendVG ==
    /\ fnIn.kind = "devs"
    /\ LET r == ExtendVG([Name |-> fnIn.name, PVs |-> <<>>], PvNames(fnIn.devs))
       IN  fnOut' = Out("ExtendVG", r.err, r.cmd, r.args, <<>>, NoAgain)
    /\ UNCHANGED <<mainVars, fnIn>>

\* select, add what was selected to the group, and select again
Apply_filterMatchingDevices ==
    /\ fnIn.kind = "sel"
    /\ LET first  == filterMatchingDevices(ListBlockDevices, fnIn.vgs, fnIn.name, fnIn.sel)
           added  == AfterAdding(fnIn.vgs, fnIn.name, first.devs)
           second == filterMatchingDevices(ListBlockDevices, added, fnIn.name, fnIn.sel)
       IN  fnOut' = Out("filterMatchingDevices", first.err # "", "", <<>>, first.devs,
                        [failed |-> second.err # "", devs |-> second.devs])
                    @@ [err |-> first.err, duplicates |-> first.duplicates]
    /\ UNCHANGED <<mainVars, fnIn>>

NextDevices ==
    \/ Apply_addDevicesToVG
    \/ Apply_CreateVG
    \/ Apply_ExtendVG
    \/ Apply_filterMatchingDevices

SpecDevices == InitDevices /\ [][NextDevices]_vars

\* C8: for every group name and every non-empty device list addDevicesToVG
\* runs exactly one command: vgcreate iff no group of that name is in the
\* list of groups it is given, vgextend iff one is; the arguments are the
\* group name followed by every given device, in order.
C8_CreateIffAbsent ==
    (fnOut.fn = "addDevicesToVG" /\ Len(fnIn.devs) > 0) =>
        LET inList == \E i \in 1..Len(fnIn.vgs) : fnIn.vgs[i].Name = fnIn.name IN
        /\ ~fnOut.failed
        /\ fnOut.cmd \in {"/usr/sbin/vgcreate", "/usr/sbin/vgextend"}
        /\ fnOut.cmd = "/usr/sbin/vgcreate" <=> ~inList
        /\ fnOut.cmd = "/usr/sbin/vgextend" <=> inList
        /\ Len(fnOut.args) = Len(fnIn.devs) + 1
        /\ fnOut.args[1] = fnIn.name
        /\ \A i \in 1..Len(fnIn.devs) :
              fnOut.args[i + 1] =
                  IF fnIn.devs[i].DevicePath # ""
                  THEN fnIn.devs[i].DevicePath
                  ELSE fnIn.devs[i].KName

\* addDevicesToVG extended a group that the list names without physical
\* volumes, with two devices
C8_Witness ==
    /\ fnOut.fn = "addDevicesToVG"
    /\ fnIn.name = VGName
    /\ fnIn.vgs = <<[Name |-> VGName, PVs |-> {}]>>
    /\ fnOut.cmd = "/usr/sbin/vgextend"
    /\ fnOut.args = <<VGName, "/dev/sdb", "/dev/disk/by-id/b">>

\* C9: for an empty device list addDevicesToVG, CreateVG and ExtendVG
\* return a failure and run no command.
C9_EmptyListRejected ==
    (fnOut.fn \in {"addDevicesToVG", "CreateVG", "ExtendVG"} /\ Len(fnIn.devs) = 0) =>
        /\ fnOut.failed
        /\ fnOut.cmd = ""
        /\ fnOut.args = <<>>

\* addDevicesToVG rejected an empty device list for a group that is in the
\* list
C9_Witness ==
    /\ fnOut.fn = "addDevicesToVG"
    /\ fnIn.devs = <<>>
    /\ fnIn.name = VGName
    /\ \E i \in 1..Len(fnIn.vgs) : fnIn.vgs[i].Name = VGName
    /\ fnOut.failed

\* the paths of the selector of the input, required and optional
InputPaths == SeqToSet(fnIn.sel.Paths) \cup SeqToSet(fnIn.sel.OptionalPaths)

\* the path resolves to a physical volume of the target group in the list
Claimed(path, vgsArg) ==
    /\ EvalSymlinks(path) # ""
    /\ \E i \in 1..Len(vgsArg) :
          vgsArg[i].Name = fnIn.name /\ EvalSymlinks(path) \in vgsArg[i].PVs

\* C10: with a device selector, a path that resolves to a physical volume
\* of the target group is left out of the selection and is no failure: the
\* selection holds no device of such a path, a selector of only such paths
\* selects nothing without a failure, and a selection that succeeded,
\* repeated after its devices were added to the group, succeeds again and
\* selects no device.
C10_SelectionIdempotent ==
    (fnOut.fn = "filterMatchingDevices" /\ fnIn.sel.set) =>
        /\ \A i \in 1..Len(fnOut.devs) : ~Claimed(fnOut.devs[i].DevicePath, fnIn.vgs)
        /\ (/\ InputPaths # {}
            /\ checkDuplicateDeviceSelectorPaths(fnIn.sel) = {}
            /\ \A p \in InputPaths : Claimed(p, fnIn.vgs)) =>
              ~fnOut.failed /\ fnOut.devs = <<>>
        /\ ~fnOut.failed => ~fnOut.again.failed /\ fnOut.again.devs = <<>>

\* a selection of a required disk and an optional symlink, both new, that
\* selected nothing when it was repeated after the two were added
C10_Witness ==
    /\ fnOut.fn = "filterMatchingDevices"
    /\ fnIn.sel.Paths = <<"/dev/sda">>
    /\ fnIn.sel.OptionalPaths = <<"/dev/disk/by-id/b">>
    /\ ~fnOut.failed
    /\ Len(fnOut.devs) = 2
    /\ ~fnOut.again.failed
    /\ fnOut.again.devs = <<>>

----------------------------------------------------------------------------
(* The steady state. *)

\* the calls that change the host or the lvmd config file
MutationCalls == HostMutations \cup LvmdWrites

\* the pass went the way of "no new devices": it wrote (or tried to write)
\* the Ready status without a write of the Progressing status before it
SteadyPass ==
    /\ NormalPass
    /\ \E i \in Calls : trace[i].op = "setStatus" /\ trace[i].note = "Ready"
    /\ \A i \in Calls : ~(trace[i].op = "setStatus" /\ trace[i].note = "Progressing")

\* C11: a pass that finds no new devices, the group on the host and the
\* logical volumes valid sets the status to Ready and issues no mutation
\* call: no group create or extend, no pool create or extend, no write of
\* the lvmd config file, and no wipe of a device that is a physical volume
\* of the group.
C11_SteadyPassMutatesNothing ==
    SteadyPass =>
        /\ \A i \in Calls : trace[i].op \in MutationCalls => trace[i].op = "wipefs"
        /\ \A i \in Calls : trace[i].op = "wipefs" => ~trace[i].claimed
        /\ LastCall.op = "setStatus" /\ LastCall.note = "Ready"
        /\ (Returned /\ LastCall.ok) => nodeStatus.phase = "Ready" /\ result = reconcileAgain

\* the same without the wipe: the steady pass creates and extends nothing
\* and leaves the lvmd config file alone
SteadyPassLeavesGroupAlone ==
    SteadyPass =>
        /\ \A i \in Calls : trace[i].op \notin MutationCalls \ {"wipefs"}
        /\ LastCall.op = "setStatus" /\ LastCall.note = "Ready"

----------------------------------------------------------------------------
(* Convergence from scratch: the passes over a new LVMVolumeGroup when no    *)
(* call fails (SpecConverge).                                               *)

\* one required path that resolves to a free disk, and nothing else
ScratchSelectors ==
    {Selector(<<p>>, <<>>, FALSE) : p \in {"/dev/sda", "/dev/disk/by-id/b"}}

\* the group is absent, nothing was reconciled yet, the disk of the path is
\* attached
InitConverge ==
    /\ vgObj \in {[exists |-> TRUE, deleting |-> FALSE, finalizer |-> f, nodeSelector |-> "none"] :
                    f \in BOOLEAN}
    /\ specTP \in TPChoices
    /\ specSel \in ScratchSelectors
    /\ nodeStatus = NoStatus
    /\ present \in {{"/dev/sda", "/dev/sdb"}, KNames}
    /\ hostVGs = [n \in VGNames |-> IF n = OtherVG THEN {"/dev/sdc"} ELSE {}]
    /\ hostLV = NoLV
    /\ mappings = {"/dev/dm-0"}
    /\ registry \in {[exists |-> FALSE, classes |-> <<>>],
                     [exists |-> TRUE, classes |-> <<OtherClass>>]}
    /\ pc = "idle"
    /\ lvmdConfig = NilConfig
    /\ lvmdConfigWasMissing = FALSE
    /\ catalog = <<>>
    /\ devices = <<>>
    /\ vgs = <<>>
    /\ result = NoResult
    /\ trace = <<>>
    /\ cleanPasses = 0
    /\ fnIn = NoFn
    /\ fnOut = NoFn

\* a step of the reconciler in which no call to the host or to the API
\* server fails and the process does not die; the object is not deleted
\* and the node status is not taken away
NextConverge ==
    /\ Next
    /\ \A i \in 1..Len(trace') : trace'[i].ok
    /\ result' # Crashed
    /\ ~vgObj'.deleting
    /\ nodeStatus.obj => nodeStatus'.obj

\* the controller runtime runs the pass to its end and starts the next one
\* (the requeue, or the retry after an error)
SpecConverge == InitConverge /\ [][NextConverge]_vars /\ WF_vars(NextConverge)


\* the disk behind the required path of the selector
ScratchDevice == LinkTarget(specSel.Paths[1])

\* the step calls vgcreate or vgextend
AddsDevices == pc = "addvg" /\ Len(trace') > Len(trace)

\* the status phase changes from one value to another
PhaseChange(from, to) == nodeStatus.phase = from /\ nodeStatus'.phase = to

\* C12: from the group absent and one required path to a free disk, with no
\* failing call, the passes call vgcreate once, with the group name and that
\* path (the group is absent before the call, holds exactly that disk after
\* it and never changes again; vgextend is never called); the phase goes
\* from empty to Progressing to Ready and stays Ready; Failed is never
\* written.
C12_ConvergesFromScratch ==
    /\ [][AddsDevices =>
            /\ addDevicesToVG(vgs, VGName, devices) =
                  [err |-> FALSE, cmd |-> "/usr/sbin/vgcreate",
                   args |-> <<VGName, specSel.Paths[1]>>]
            /\ hostVGs[VGName] = {}
            /\ hostVGs'[VGName] = {ScratchDevice}]_vars
    /\ [][hostVGs[VGName] # {} => hostVGs'[VGName] = hostVGs[VGName]]_vars
    /\ [][nodeStatus'.phase # nodeStatus.phase =>
            PhaseChange("", "Progressing") \/ PhaseChange("Progressing", "Ready")]_vars
    /\ [](\A i \in Calls : ~(trace[i].op = "setStatus" /\ trace[i].note = "Failed"))
    /\ <>(hostVGs[VGName] = {ScratchDevice})
    /\ <>[](nodeStatus.phase = "Ready")

\* the group was created on the disk of the path, the pass that follows
\* found nothing to add and wrote Ready over Ready
C12_Witness ==
    /\ hostVGs[VGName] = {ScratchDevice}
    /\ SteadyPass
    /\ Returned
    /\ result = reconcileAgain
    /\ nodeStatus.phase = "Ready"
    /\ trace[1].phase = "Ready"
    /\ nodeStatus.devices = {ScratchDevice}

----------------------------------------------------------------------------
(* extendThinPool on its own: the size strings of the reports, the parsing  *)
(* and the comparison (SpecExtend).                                         *)

\* a string is a sequence of characters
Digits == <<"0", "1", "2", "3", "4", "5", "6", "7", "8", "9">>

IsDigit(c) == \E d \in 1..Len(Digits) : Digits[d] = c

DigitValue(c) == (CHOOSE d \in 1..Len(Digits) : Digits[d] = c) - 1

\* the decimal digits of a natural number
RECURSIVE Decimal(_)
Decimal(n) ==
    IF n < Len(Digits) THEN <<Digits[n + 1]>>
    ELSE Decimal(n \div Len(Digits)) \o <<Digits[(n % Len(Digits)) + 1]>>

\* the number a string of digits writes
RECURSIVE Number(_)
Number(str) ==
    IF str = <<>> THEN 0
    ELSE Len(Digits) * Number(SubSeq(str, 1, Len(str) - 1)) + DigitValue(str[Len(str)])

\* strconv.ParseFloat on a whole number: an error for the empty string and
\* for any character that is no digit
ParseFloat(str) ==
    IF str = <<>> \/ \E i \in 1..Len(str) : ~IsDigit(str[i])
    THEN [err |-> TRUE, value |-> 0]
    ELSE [err |-> FALSE, value |-> Number(str)]

\* lvSize[:len(lvSize)-1]
StripLast(str) == SubSeq(str, 1, Len(str) - 1)

\* a size as lvm reports it with --units g: an optional "<" (the size was
\* rounded up), the magnitude, the unit
SizeReport(mark, magnitude) == mark \o Decimal(magnitude) \o <<"g">>

\* the number in a size report, whatever marks it
Magnitude(str) == Number(SelectSeq(str, IsDigit))

\* the answers of LVM.GetVG
VGFound(vgSize) == [err |-> "", VgSize |-> vgSize]

VGNotFound == [err |-> "notfound", VgSize |-> <<>>]

VGFailed == [err |-> "failed", VgSize |-> <<>>]

\* an extension decided on the exact percentage
extendThinPool_Exact(getvg, lvSize, sizePercent, extendOk) ==
    LET thinPoolSize == ParseFloat(StripLast(lvSize))
        vgSize       == ParseFloat(StripLast(getvg.VgSize))
    IN  IF getvg.err = "failed" THEN [err |-> TRUE, extend |-> FALSE]
        ELSE IF getvg.err = "notfound" THEN [err |-> FALSE, extend |-> FALSE]
        ELSE IF thinPoolSize.err \/ vgSize.err THEN [err |-> TRUE, extend |-> FALSE]
        ELSE IF sizePercent <= CurrentPercent_Exact(thinPoolSize.value, vgSize.value)
             THEN [err |-> FALSE, extend |-> FALSE]
        ELSE [err |-> ~extendOk, extend |-> TRUE]

\* extendThinPool with a group that is not found answered like any other
\* failure of the lookup
extendThinPool_NotFoundFails(getvg, lvSize, sizePercent, extendOk) ==
    LET thinPoolSize == ParseFloat(StripLast(lvSize))
        vgSize       == ParseFloat(StripLast(getvg.VgSize))
    IN  IF getvg.err # "" THEN [err |-> TRUE, extend |-> FALSE]
        ELSE IF thinPoolSize.err \/ vgSize.err THEN [err |-> TRUE, extend |-> FALSE]
        ELSE IF sizePercent <= CurrentPercent(thinPoolSize.value, vgSize.value)
             THEN [err |-> FALSE, extend |-> FALSE]
        ELSE [err |-> ~extendOk, extend |-> TRUE]

\* extendThinPool: whether LVM.ExtendLV is called and whether an error is
\* returned; extendOk: the call of LVM.ExtendLV succeeds
extendThinPool(getvg, lvSize, sizePercent, extendOk) ==
    LET thinPoolSize == ParseFloat(StripLast(lvSize))
        vgSize       == ParseFloat(StripLast(getvg.VgSize))
    IN  IF getvg.err = "failed" THEN [err |-> TRUE, extend |-> FALSE]
        ELSE IF getvg.err = "notfound" THEN [err |-> FALSE, extend |-> FALSE]
        ELSE IF thinPoolSize.err \/ vgSize.err THEN [err |-> TRUE, extend |-> FALSE]
        ELSE IF sizePercent <= CurrentPercent(thinPoolSize.value, vgSize.value)
             THEN [err |-> FALSE, extend |-> FALSE]
        ELSE [err |-> ~extendOk, extend |-> TRUE]

\* the sizes and the targets the function is applied to
PoolSizes == {20, 29, 40, 58, 80, 100}

GroupSizes == {50, 100, 200}

SizePercents == {29, 30, 40, 58, 80}

Marks == {<<>>, <<"<">>}

ExtendInputs ==
    {[kind |-> "pool", lvSize |-> SizeReport(m, p), getvg |-> g, sizePercent |-> t,
      extendOk |-> ok] :
        m \in Marks, p \in PoolSizes, t \in SizePercents, ok \in BOOLEAN,
        g \in {VGNotFound, VGFailed}
              \cup {VGFound(SizeReport(n, v)) : n \in Marks, v \in GroupSizes}}

InitExtend ==
    /\ vgObj = [exists |-> TRUE, deleting |-> FALSE, finalizer |-> TRUE, nodeSelector |-> "none"]
    /\ specTP = NoTP
    /\ specSel = NoSelector
    /\ nodeStatus = EmptyStatus
    /\ fnIn \in {i \in ExtendInputs :
                    i.getvg.err = "" => Magnitude(i.lvSize) <= Magnitude(i.getvg.VgSize)}
    /\ present = KNames
    /\ hostVGs = [n \in VGNames |-> IF n = OtherVG THEN {"/dev/sdc"} ELSE {}]
    /\ hostLV = NoLV
    /\ mappings = {"/dev/dm-0"}
    /\ registry = [exists |-> FALSE, classes |-> <<>>]
    /\ pc = "idle"
    /\ lvmdConfig = NilConfig
    /\ lvmdConfigWasMissing = FALSE
    /\ catalog = <<>>
    /\ devices = <<>>
    /\ vgs = <<>>
    /\ result = NoResult
    /\ trace = <<>>
    /\ cleanPasses = 0
    /\ fnOut = [fn |-> "none", err |-> FALSE, extend |-> FALSE]

Apply_extendThinPool ==
    /\ fnIn.kind = "pool"
    /\ LET r == extendThinPool(fnIn.getvg, fnIn.lvSize, fnIn.sizePercent, fnIn.extendOk)
       IN  fnOut' = [fn |-> "extendThinPool", err |-> r.err, extend |-> r.extend]
    /\ UNCHANGED <<mainVars, fnIn>>

SpecExtend == InitExtend /\ [][Apply_extendThinPool]_vars

\* extendThinPool was applied to a group that was found and to sizes that
\* parse
Compared ==
    /\ fnOut.fn = "extendThinPool"
    /\ fnIn.getvg.err = ""
    /\ ~ParseFloat(StripLast(fnIn.lvSize)).err
    /\ ~ParseFloat(StripLast(fnIn.getvg.VgSize)).err

\* C13: for a pool that exists as a thin pool, LVM.ExtendLV is called iff
\* the target size-percent is greater than the percentage the pool has of
\* the group (pool size / group size * 100), and never when the target is
\* at most that percentage.
C13_ExtendIffTargetGreater ==
    Compared =>
        LET pool  == Magnitude(fnIn.lvSize)
            group == Magnitude(fnIn.getvg.VgSize)
        IN  /\ fnOut.extend <=> fnIn.sizePercent * group > pool * 100
            /\ fnIn.sizePercent * group <= pool * 100 => ~fnOut.extend

\* the pool is never made smaller: an extension is called only with a
\* target that is at least the percentage the pool has
ExtendNeverShrinks ==
    (Compared /\ fnOut.extend) =>
        fnIn.sizePercent * Magnitude(fnIn.getvg.VgSize) >= Magnitude(fnIn.lvSize) * 100

----------------------------------------------------------------------------
(* The lvmd config file in the normal pass. *)

\* the pass called LVMD.Save with the content it had loaded
SavedUnchanged ==
    \E i \in Calls : trace[i].op = "lvmd.Save" /\ trace[i].note = "unchanged"

\* C14: a normal pass writes the lvmd config file only when its content
\* changed: LVMD.Save is called only with a config that differs by value
\* from the one loaded, and a pass that loaded a config with the device
\* class of the group reaches Ready without a call of LVMD.Save.
C14_SaveOnlyIfChanged ==
    NormalPass =>
        /\ ~SavedUnchanged
        /\ (pc = "ready" /\ HasClass(lvmdConfig.classes, VGName)) => ~Issued("lvmd.Save")
        /\ \A i \in Calls : trace[i].op = "lvmd.Save" /\ trace[i].ok =>
              HasClass(registry.classes, VGName)

\* what holds of the save: it is called only on the way of new devices,
\* after the validation, and leaves the device class in the file
SaveLeavesClass ==
    NormalPass =>
        \A i \in Calls : trace[i].op = "lvmd.Save" =>
            /\ \E j \in 1..(i - 1) : trace[j].op \in {"/usr/sbin/vgcreate", "/usr/sbin/vgextend"}
                                     /\ trace[j].ok
            /\ trace[i].ok => HasClass(registry.classes, VGName)

----------------------------------------------------------------------------
(* Duplicate paths of a selector (SpecDevices). *)

\* the paths of the selector of the input, required followed by optional
AllInputPaths == fnIn.sel.Paths \o fnIn.sel.OptionalPaths

\* the paths that more than one place of the two lists holds
Repeated ==
    {p \in PathNames :
        Cardinality({i \in 1..Len(AllInputPaths) : AllInputPaths[i] = p}) > 1}

\* C15: a path that occurs more than once in the required and the optional
\* paths together makes the selection fail with the validation failure that
\* names every such path (and no other); the failure comes before any path
\* is resolved, so it is the answer whatever the paths resolve to and
\* whatever the list of groups holds; without a repeated path the check
\* passes.
C15_DuplicatesRejectedFirst ==
    (fnOut.fn = "filterMatchingDevices" /\ fnIn.sel.set) =>
        /\ Repeated # {} =>
              /\ fnOut.failed
              /\ fnOut.err = "duplicate"
              /\ fnOut.duplicates = Repeated
              /\ fnOut.devs = <<>>
        /\ Repeated = {} =>
              /\ checkDuplicateDeviceSelectorPaths(fnIn.sel) = {}
              /\ fnOut.err # "duplicate"
              /\ fnOut.duplicates = {}

\* a selector with a path that does not resolve, and with a path that is
\* both required and optional: the answer is the failure that names the
\* repeated path, not the one of the path that does not resolve
C15_Witness ==
    /\ fnOut.fn = "filterMatchingDevices"
    /\ fnIn.sel.Paths = <<"/dev/nope", "/dev/sda">>
    /\ fnIn.sel.OptionalPaths = <<"/dev/sda">>
    /\ fnOut.failed
    /\ fnOut.err = "duplicate"
    /\ fnOut.duplicates = {"/dev/sda"}

----------------------------------------------------------------------------
(* No new devices and no group. *)

\* the pass found no device to add and no group on the host
NothingToDo ==
    /\ NormalPass
    /\ \E i \in Calls : trace[i].op = "WarningEvent" /\ trace[i].note = "NoAvailableDevicesForVG"

\* the pass stands at the decision with no device to add and no group in
\* the list, and the process goes on
DecidesNothingToDo ==
    /\ pc = "decide"
    /\ Len(devices) = 0
    /\ ~vgExistsInLVM
    /\ result' # Crashed

\* C16 as stated: a normal pass that finds no new devices and no group sets
\* the phase to Failed with the reason, raises a warning event, returns a
\* failure, never writes Ready, and issues no host mutation at all.
C16_NoHostMutationAtAll ==
    NothingToDo =>
        /\ \A i \in Calls : trace[i].op \notin HostMutations
        /\ \A i \in Calls : ~(trace[i].op = "setStatus" /\ trace[i].note = "Ready")
        /\ Returned => result = Failure
        /\ (Returned /\ LastCall.ok) =>
              nodeStatus.phase = "Failed" /\ nodeStatus.reason = "NoAvailableDevicesForVG"

\* C16 amended: the step taken at the decision raises the warning event
\* NoAvailableDevicesForVG, then writes the Failed status with that reason
\* (a failure of the write is only logged), returns the failure and changes
\* nothing on the host; the pass never writes Ready and issues no group or
\* pool create or extend and no write of the lvmd config file. The wipe of
\* the configured paths, which comes before the selection, may have been
\* issued in it.
C16_NoDevicesNoGroupFails ==
    /\ [][DecidesNothingToDo =>
            /\ pc' = "idle"
            /\ result' = Failure
            /\ Len(trace') = Len(trace) + 2
            /\ SubSeq(trace', 1, Len(trace)) = trace
            /\ trace'[Len(trace) + 1].op = "WarningEvent"
            /\ trace'[Len(trace) + 1].note = "NoAvailableDevicesForVG"
            /\ trace'[Len(trace) + 2].op = "setStatus"
            /\ trace'[Len(trace) + 2].note = "Failed"
            /\ trace'[Len(trace) + 2].ok =>
                  nodeStatus'.phase = "Failed" /\ nodeStatus'.reason = "NoAvailableDevicesForVG"
            /\ ~trace'[Len(trace) + 2].ok => nodeStatus' = nodeStatus
            /\ UNCHANGED hostVars]_vars
    /\ [](NothingToDo =>
            /\ \A i \in Calls : trace[i].op \notin (HostMutations \ {"wipefs"}) \cup LvmdWrites
            /\ \A i \in Calls : ~(trace[i].op = "setStatus" /\ trace[i].note = "Ready")
            /\ Returned => result = Failure)

\* a pass that wiped a disk of another group, could not use it (its
\* device-mapper child stayed), found no group and ended Failed
C16_Witness ==
    /\ NothingToDo
    /\ Returned
    /\ result = Failure
    /\ nodeStatus.phase = "Failed"
    /\ nodeStatus.reason = "NoAvailableDevicesForVG"
    /\ hostVGs[VGName] = {}
    /\ \E i \in Calls : trace[i].op = "wipefs" /\ trace[i].ok

----------------------------------------------------------------------------
(* Ready and the size of the thin pool. *)

\* this step writes the Ready status for a spec with a thin pool
WritesReady ==
    /\ trace' # trace
    /\ Len(trace') > 0
    /\ trace'[Len(trace')].op = "setStatus"
    /\ trace'[Len(trace')].note = "Ready"
    /\ trace'[Len(trace')].ok
    /\ specTP.set

\* the group holds every device the pass selected, and the thin pool is
\* there with at least the size-percent of the spec
Converged ==
    /\ \A i \in 1..Len(devices) : devices[i].KName \in hostVGs[VGName]
    /\ hostLV.exists
    /\ hostLV.size * 100 >= specTP.SizePercent * VgSize

\* C17 as stated: whenever a pass writes Ready for a spec with a thin pool,
\* the group on the host holds every selected device and the thin pool has
\* at least the configured size-percent of the group.
C17_ReadyMeansConverged == [][WritesReady => Converged']_vars

\* the pass that added devices writes Ready only with the pool at its size
ReadyAfterAddingConverged ==
    [][(WritesReady /\ pc = "ready") => Converged']_vars

----------------------------------------------------------------------------
(* The lvmd config file and the group on the host. *)

\* a pass has returned and none is running
PassBoundary == pc = "idle" /\ result.kind = "returned" /\ Len(trace) > 0

\* a normal pass that ends with the Ready status written, the group on the
\* host and its thin pool valid, leaves a device class of the group
ReadyGroupHasClass ==
    (PassBoundary /\ NormalPass /\ LastCall.op = "setStatus" /\ LastCall.note = "Ready"
        /\ LastCall.ok /\ hostVGs[VGName] # {} /\ specTP.set /\ validateLVs(TRUE))
    => HasClass(registry.classes, VGName)

\* a deletion pass that removed the group from the host has taken the
\* device class of the group out of the file
DeletedGroupHasNoClass ==
    (PassBoundary /\ trace[1].op = "processDelete"
        /\ \E i \in Calls : trace[i].op = "vgremove" /\ trace[i].ok)
    => ~HasClass(registry.classes, VGName)

\* C18 as stated: at every pass boundary, after normal and deletion passes
\* and failed ones too, the lvmd config file has a device class of the
\* group iff the group exists on the host and its creation completed. It
\* is read at the boundaries where neither side can be doubted: the group
\* is there and complete at the end of a pass that found it with a valid
\* thin pool and wrote Ready, and it is gone at the end of a deletion pass
\* whose group delete succeeded.
C18_RegistryIffGroupCreated == ReadyGroupHasClass /\ DeletedGroupHasNoClass

\* a normal pass writes the file in one place only, the save that follows
\* the thin pool and the validation of a pass that added devices
ClassWrittenBySaveOnly ==
    [][(registry' # registry /\ trace'[1].op = "reconcile") => pc = "lvmd"]_vars

----------------------------------------------------------------------------
(* Required paths and the physical volumes of other groups. *)

\* the path resolves to a physical volume of a group of the list other than
\* the target group
ForeignClaimed(path, vgsArg) ==
    /\ EvalSymlinks(path) # ""
    /\ \E i \in 1..Len(vgsArg) :
          vgsArg[i].Name # fnIn.name /\ EvalSymlinks(path) \in vgsArg[i].PVs

\* C19 as stated: a required path that resolves to a physical volume of
\* another volume group makes the selection fail: it returns a failure and
\* no device.
C19_ForeignRequiredFails ==
    (/\ fnOut.fn = "filterMatchingDevices"
     /\ fnIn.sel.set
     /\ \E i \in 1..Len(fnIn.sel.Paths) : ForeignClaimed(fnIn.sel.Paths[i], fnIn.vgs))
    => fnOut.failed /\ fnOut.devs = <<>>

\* in a pass, a required path on a physical volume of the other group ends
\* the pass at the selection with a failure
ForeignRequiredEndsPass ==
    [][(/\ pc = "select"
        /\ specSel.set
        /\ \E i \in 1..Len(specSel.Paths) : LinkTarget(specSel.Paths[i]) \in hostVGs[OtherVG]
        /\ result' # Crashed)
       => (pc' = "idle" /\ result'.err)]_vars

\* on the host no disk is a physical volume of two groups at once
NoDiskInTwoGroups == hostVGs[VGName] \cap hostVGs[OtherVG] = {}

----------------------------------------------------------------------------
(* Force-wipe and the physical volumes of the group. *)

\* C20 as stated: with force-wipe, no pass hands a disk that is a physical
\* volume of the target group on the host to Wipefs.Wipe, also not a pass
\* after one that created or extended the group without a status update,
\* and not a pass after the node status was lost and created again.
C20_MembersNeverWiped ==
    \A i \in Calls : trace[i].op = "wipefs" => ~trace[i].claimed

\* a disk the node status lists for the group is never handed to
\* Wipefs.Wipe
ListedNeverWiped ==
    [][\A i \in 1..Len(trace') :
          (i > Len(trace) /\ trace'[i].op = "wipefs") => trace'[i].note \notin nodeStatus.devices]_vars

----------------------------------------------------------------------------
(* validateLVs on the report of LVM.ListLVs (vgmanager_controller.go       *)
(* 444-505). A string is a sequence of characters; a percentage is kept in *)
(* hundredths, the two decimals lvm prints.                                *)

VolumeTypeThinPool == "t"

StateActive == "a"

\* ParsedLvAttr: lv_attr has ten characters, the first the volume type and
\* the fifth the state
ParsedLvAttr(raw) ==
    IF Len(raw) # 10
    THEN [err |-> TRUE, VolumeType |-> "", State |-> ""]
    ELSE [err |-> FALSE, VolumeType |-> raw[1], State |-> raw[5]]

\* strconv.ParseFloat on a decimal with up to two digits after the point,
\* in hundredths: an error for the empty string, for a character that is
\* neither a digit nor the point, for two points and for a point alone
ParseFloatHundredths(str) ==
    LET dots == {i \in 1..Len(str) : str[i] = "."}
        bad  == {i \in 1..Len(str) : ~IsDigit(str[i]) /\ str[i] # "."}
    IN  IF str = <<>> \/ bad # {} \/ Cardinality(dots) > 1 \/ str = <<".">>
        THEN [err |-> TRUE, value |-> 0]
        ELSE IF dots = {} THEN [err |-> FALSE, value |-> 100 * Number(str)]
        ELSE LET d    == CHOOSE i \in dots : TRUE
                 whole == SubSeq(str, 1, d - 1)
                 frac  == SubSeq(SubSeq(str, d + 1, Len(str)) \o <<"0", "0">>, 1, 2)
             IN  [err |-> FALSE, value |-> 100 * Number(whole) + Number(frac)]

\* the loop over the logical volumes of one report: "" when every volume of
\* the name passes, found: a volume of the name was seen
RECURSIVE checkLvs(_, _, _)
checkLvs(lvs, name, found) ==
    IF lvs = <<>> THEN IF found THEN "" ELSE "thin-pool LV is no longer present"
    ELSE LET lv == Head(lvs) IN
         IF lv.Name # name THEN checkLvs(Tail(lvs), name, found)
         ELSE LET lvAttr == ParsedLvAttr(lv.LvAttr)
                  meta   == ParseFloatHundredths(lv.MetadataPercent)
              IN  IF lvAttr.err THEN "could not parse lv_attr"
                  ELSE IF lvAttr.VolumeType # VolumeTypeThinPool THEN "not of type Thin-Pool"
                  ELSE IF lvAttr.State # StateActive THEN "inactive logical volume"
                  ELSE IF meta.err THEN "metadata percentage parsing error"
                  ELSE IF metadataOverflows(meta.value) THEN "metadata partition is over"
                  ELSE checkLvs(Tail(lvs), name, TRUE)

\* the loop over the reports
RECURSIVE checkReports(_, _)
checkReports(reports, name) ==
    IF reports = <<>> THEN ""
    ELSE IF Len(Head(reports)) < 1 THEN "no LV was found in the report"
    ELSE LET e == checkLvs(Head(reports), name, FALSE) IN
         IF e # "" THEN e ELSE checkReports(Tail(reports), name)

\* validateLVs: the error it returns ("" for nil) and whether it called
\* LVM.ListLVs; tp: Spec.ThinPoolConfig, listOk and reports: the answer of
\* LVM.ListLVs
validateLVsReport(tp, listOk, reports) ==
    IF ~tp.set THEN [err |-> "", queried |-> FALSE]
    ELSE IF ~listOk THEN [err |-> "could not get logical volumes", queried |-> TRUE]
    ELSE IF Len(reports) < 1 THEN [err |-> "LV report was empty", queried |-> TRUE]
    ELSE [err |-> checkReports(reports, tp.Name), queried |-> TRUE]

\* lv_attr as lvm prints it for a volume of the type and the state
AttrOf(thin, active) ==
    <<IF thin THEN "t" ELSE "-", "w", "i", "-", IF active THEN "a" ELSE "-", "-",
      IF thin THEN "t" ELSE "-", IF thin THEN "z" ELSE "-", "-", "-">>

\* two digits
TwoDigits(n) == IF n < 10 THEN <<"0">> \o Decimal(n) ELSE Decimal(n)

\* metadata_percent as lvm prints it: two decimals, empty for a volume
\* without metadata
PercentOf(hundredths) ==
    IF hundredths < 0 THEN <<>>
    ELSE Decimal(hundredths \div 100) \o <<".">> \o TwoDigits(hundredths % 100)

\* the line of the report for a logical volume
LvLine(lv) ==
    [Name |-> lv.name, LvAttr |-> AttrOf(lv.thin, lv.active), MetadataPercent |-> PercentOf(lv.meta)]

\* a logical volume on the host: its name, whether it is a thin pool, whether
\* it is active, how full its metadata is (in hundredths, -1: none)
HostLv(name, thin, active, meta) == [name |-> name, thin |-> thin, active |-> active, meta |-> meta]

LvChoices ==
    { HostLv("tp1", TRUE, TRUE, 1234),
      HostLv("tp1", TRUE, TRUE, 9500),
      HostLv("tp1", TRUE, TRUE, 9501),
      HostLv("tp1", TRUE, TRUE, 10000),
      HostLv("tp1", TRUE, FALSE, 1234),
      HostLv("tp1", FALSE, TRUE, -1),
      HostLv("lv2", FALSE, TRUE, -1),
      HostLv("lv2", TRUE, TRUE, 9900) }

\* the most logical volumes in a report, and the most reports in an answer
MaxLvs == 2

MaxReports == 2

\* the reports after the first: empty, the pool in order, the pool with its
\* metadata over the limit, another volume alone
MoreReports ==
    {<<>>} \cup {<<lv>> : lv \in {HostLv("tp1", TRUE, TRUE, 9500), HostLv("tp1", TRUE, TRUE, 9501),
                                  HostLv("lv2", FALSE, TRUE, -1)}}

\* the answers of LVM.ListLVs: no report, or a first report of any logical
\* volumes and more reports after it
ReportChoices ==
    {<<>>} \cup
    {<<first>> \o more :
        first \in SeqsUpTo(LvChoices, MaxLvs), more \in SeqsUpTo(MoreReports, MaxReports - 1)}

ValidateInputs ==
    {[kind |-> "lvs", tp |-> t, listOk |-> ok, lvs |-> r] :
        t \in TPChoices, ok \in BOOLEAN, r \in ReportChoices}

InitValidate ==
    /\ vgObj = [exists |-> TRUE, deleting |-> FALSE, finalizer |-> TRUE, nodeSelector |-> "none"]
    /\ specTP = NoTP
    /\ specSel = NoSelector
    /\ nodeStatus = EmptyStatus
    /\ fnIn \in ValidateInputs
    /\ present = KNames
    /\ hostVGs = [n \in VGNames |-> IF n = OtherVG THEN {"/dev/sdc"} ELSE {}]
    /\ hostLV = NoLV
    /\ mappings = {"/dev/dm-0"}
    /\ registry = [exists |-> FALSE, classes |-> <<>>]
    /\ pc = "idle"
    /\ lvmdConfig = NilConfig
    /\ lvmdConfigWasMissing = FALSE
    /\ catalog = <<>>
    /\ devices = <<>>
    /\ vgs = <<>>
    /\ result = NoResult
    /\ trace = <<>>
    /\ cleanPasses = 0
    /\ fnOut = [fn |-> "none", err |-> "", queried |-> FALSE]

Apply_validateLVs ==
    /\ fnIn.kind = "lvs"
    /\ LET reports == [i \in 1..Len(fnIn.lvs) |->
                          [j \in 1..Len(fnIn.lvs[i]) |-> LvLine(fnIn.lvs[i][j])]]
           r == validateLVsReport(fnIn.tp, fnIn.listOk, reports)
       IN  fnOut' = [fn |-> "validateLVs", err |-> r.err, queried |-> r.queried]
    /\ UNCHANGED <<mainVars, fnIn>>

SpecValidate == InitValidate /\ [][Apply_validateLVs]_vars

\* the volume is a thin pool in order: thin-pool type, active, metadata
\* filled to 95 percent at most
PoolInOrder(lv) == lv.thin /\ lv.active /\ lv.meta >= 0 /\ lv.meta <= 9500

\* C21: with a thin pool configured, validateLVs succeeds iff the answer of
\* LVM.ListLVs came, has at least one report, and every report has at least
\* one logical volume and one of the configured name, every volume of that
\* name being a thin pool, active and with at most 95 percent of its
\* metadata filled (95.00 passes, 95.01 fails); without a thin pool
\* configured it succeeds and does not call LVM.ListLVs.
C21_ValidationIffPoolInOrder ==
    fnOut.fn = "validateLVs" =>
        /\ fnIn.tp.set =>
              /\ fnOut.queried
              /\ fnOut.err = "" <=>
                    /\ fnIn.listOk
                    /\ Len(fnIn.lvs) >= 1
                    /\ \A i \in 1..Len(fnIn.lvs) :
                          /\ Len(fnIn.lvs[i]) >= 1
                          /\ \E j \in 1..Len(fnIn.lvs[i]) : fnIn.lvs[i][j].name = fnIn.tp.Name
                          /\ \A j \in 1..Len(fnIn.lvs[i]) :
                                fnIn.lvs[i][j].name = fnIn.tp.Name => PoolInOrder(fnIn.lvs[i][j])
        /\ ~fnIn.tp.set => fnOut.err = "" /\ ~fnOut.queried

\* validateLVs passed a report of the pool with its metadata at 95.00
\* percent next to another volume
C21_Witness ==
    /\ fnOut.fn = "validateLVs"
    /\ fnIn.tp.set
    /\ fnIn.lvs = <<<<HostLv("lv2", FALSE, TRUE, -1), HostLv("tp1", TRUE, TRUE, 9500)>>>>
    /\ fnOut.err = ""
    /\ fnOut.queried

----------------------------------------------------------------------------
(* A failed validation. *)

\* the pass stands before validateLVs (without new devices and with the
\* group in the list, or after the thin pool), a thin pool is configured and
\* the validation of this step fails; the lvs call is the next of the trace
ValidationFails ==
    /\ \/ pc = "decide" /\ Len(devices) = 0 /\ vgExistsInLVM
       \/ pc = "validate"
    /\ specTP.set
    /\ result' # Crashed
    /\ Len(trace') > Len(trace)
    /\ trace'[Len(trace) + 1].op = "lvs"
    /\ ~validateLVs(trace'[Len(trace) + 1].ok)

\* the trace holds the warning event of a failed validation
Inconsistent ==
    \E i \in Calls : trace[i].op = "WarningEvent" /\ trace[i].note = "InconsistentLVs"

\* C22: a validation that fails, without new devices or after the thin
\* pool, ends the pass: the step raises the warning event InconsistentLVs,
\* writes the Failed status (a failure of the write is only logged), returns
\* the failure and changes nothing on the host or in the lvmd config file;
\* nothing is called after the Failed status, so no command repairs the thin
\* pool, the file is not saved and Ready is not written in that pass.
C22_ValidationFailureIsFatal ==
    /\ [][ValidationFails =>
            /\ pc' = "idle"
            /\ result' = Failure
            /\ Len(trace') = Len(trace) + 3
            /\ SubSeq(trace', 1, Len(trace)) = trace
            /\ trace'[Len(trace) + 2].op = "WarningEvent"
            /\ trace'[Len(trace) + 2].note = "InconsistentLVs"
            /\ trace'[Len(trace) + 3].op = "setStatus"
            /\ trace'[Len(trace) + 3].note = "Failed"
            /\ trace'[Len(trace) + 3].ok =>
                  nodeStatus'.phase = "Failed" /\ nodeStatus'.reason = "InconsistentLVs"
            /\ ~trace'[Len(trace) + 3].ok => nodeStatus' = nodeStatus
            /\ UNCHANGED hostVars]_vars
    /\ [](Inconsistent =>
            /\ Returned
            /\ result = Failure
            /\ LastCall.op = "setStatus" /\ LastCall.note = "Failed"
            /\ trace[Len(trace) - 1].op = "WarningEvent"
            /\ \A i \in Calls : trace[i].op \notin LvmdWrites
            /\ \A i \in Calls : ~(trace[i].op = "setStatus" /\ trace[i].note = "Ready"))

\* a pass without new devices found the group without its thin pool and
\* ended Failed, with no command for the group or the pool
C22_Witness ==
    /\ Inconsistent
    /\ Returned
    /\ nodeStatus.phase = "Failed"
    /\ nodeStatus.reason = "InconsistentLVs"
    /\ hostVGs[VGName] # {}
    /\ ~hostLV.exists
    /\ ~Issued("/usr/sbin/vgcreate")
    /\ ~Issued("lvcreate")

----------------------------------------------------------------------------
(* The group before the thin pool. *)

GroupCommands == {"/usr/sbin/vgcreate", "/usr/sbin/vgextend"}

\* an earlier call of the pass created or extended the group
GroupAddedBefore(i) ==
    \E j \in 1..(i - 1) : trace[j].op \in GroupCommands /\ trace[j].ok

\* C23: in a pass every call of addThinPoolToVG (the list of the logical
\* volumes, lvcreate, lvextend) comes after a vgcreate or vgextend of the
\* same pass that succeeded; when the vgcreate or vgextend fails, the pass
\* calls nothing for the thin pool, raises the warning event and writes the
\* Failed status (a failure of the write is only logged).
C23_GroupBeforeThinPool ==
    /\ [][(pc = "addtp" /\ trace' # trace) =>
            \E j \in 1..Len(trace) : trace[j].op \in GroupCommands /\ trace[j].ok]_vars
    /\ [][(pc = "addvg" /\ pc' = "idle" /\ result' # Crashed) =>
            /\ result' = Failure
            /\ ~trace'[Len(trace) + 1].ok
            /\ UNCHANGED hostVars
            /\ nodeStatus' = IF trace'[Len(trace')].ok
                              THEN StatusAfter("Failed", "VGCreateOrExtendFailed")
                              ELSE nodeStatus]_vars
    /\ [](\A i \in Calls :
            /\ trace[i].op \in {"lvcreate", "lvextend"} => GroupAddedBefore(i)
            /\ (trace[i].op \in GroupCommands /\ ~trace[i].ok) =>
                  /\ \A j \in Calls : trace[j].op \notin {"lvs", "lvcreate", "lvextend"}
                  /\ Len(trace) = i + 2
                  /\ trace[i + 1].op = "WarningEvent"
                  /\ trace[i + 1].note = "VGCreateOrExtendFailed"
                  /\ LastCall.op = "setStatus" /\ LastCall.note = "Failed"
                  /\ Returned
                  /\ result = Failure)

\* the pass extended the group by a second disk and then extended the pool
C23_Witness ==
    /\ NormalPass
    /\ \E i \in Calls : /\ trace[i].op = "lvextend"
                        /\ trace[i].ok
                        /\ \E j \in 1..(i - 1) : trace[j].op = "/usr/sbin/vgextend" /\ trace[j].ok
    /\ Cardinality(hostVGs[VGName]) = 2

----------------------------------------------------------------------------
(* C24: the passes of two LVMVolumeGroups of one node over the one lvmd
   config file.  Each pass keeps its own copy of the file between LVMD.Load
   (line 156) and LVMD.Save (line 323); the reconciler takes no lock.
   SetupWithManager (79-84) sets no MaxConcurrentReconciles: how many passes
   run at a time is the manager's choice, drawn here from 1..MaxWorkers. *)

MaxWorkers == 2

\* the device class the pass of group s adds
ClassOf(s) == IF s = OtherVG THEN OtherClass
              ELSE [Name |-> VGName, VolumeGroup |-> VGName, Type |-> "", ThinPool |-> ""]

\* the disk the selector of group s names
DeviceOf(s) == IF s = OtherVG THEN "/dev/sdb" ELSE "/dev/sda"

Running(s) == fnOut.at[s] \in {"loaded", "added", "saved"}

InitTwoPasses ==
    /\ vgObj = [exists |-> TRUE, deleting |-> FALSE, finalizer |-> TRUE, nodeSelector |-> "none"]
    /\ specTP = NoTP
    /\ specSel = NoSelector
    /\ nodeStatus = EmptyStatus
    /\ \E w \in 1..MaxWorkers : fnIn = [kind |-> "passes", MaxConcurrentReconciles |-> w]
    /\ present = KNames
    /\ hostVGs = [n \in VGNames |-> {}]
    /\ hostLV = NoLV
    /\ mappings = {}
    /\ registry \in {[exists |-> FALSE, classes |-> <<>>], [exists |-> TRUE, classes |-> <<>>]}
    /\ pc = "idle"
    /\ lvmdConfig = NilConfig
    /\ lvmdConfigWasMissing = FALSE
    /\ catalog = <<>>
    /\ devices = <<>>
    /\ vgs = <<>>
    /\ result = NoResult
    /\ trace = <<>>
    /\ cleanPasses = 0
    /\ fnOut = [fn |-> "passes",
                at |-> [s \in VGNames |-> "idle"],
                config |-> [s \in VGNames |-> <<>>],
                phase |-> [s \in VGNames |-> ""]]

PassVars == <<vgObj, specTP, specSel, nodeStatus, present, hostLV, mappings, pc,
              localVars, result, trace, cleanPasses, fnIn>>

\* a worker takes the request of group s and the pass loads the lvmd config
Pass_Load(s) ==
    /\ fnOut.fn = "passes"
    /\ fnOut.at[s] = "idle"
    /\ Cardinality({t \in VGNames : Running(t)}) < fnIn.MaxConcurrentReconciles
    /\ \E ok \in BOOLEAN :
          fnOut' = IF ok
                   THEN [fnOut EXCEPT !.at[s] = "loaded", !.config[s] = registry.classes]
                   ELSE [fnOut EXCEPT !.at[s] = "failed", !.phase[s] = "Failed"]
    /\ UNCHANGED <<PassVars, hostVGs, registry>>

\* the pass creates its volume group on its disk
Pass_AddDevicesToVG(s) ==
    /\ fnOut.fn = "passes"
    /\ fnOut.at[s] = "loaded"
    /\ \E ok \in BOOLEAN :
          IF ok
          THEN /\ hostVGs' = [hostVGs EXCEPT ![s] = {DeviceOf(s)}]
               /\ fnOut' = [fnOut EXCEPT !.at[s] = "added", !.phase[s] = "Progressing"]
          ELSE /\ fnOut' = [fnOut EXCEPT !.at[s] = "failed", !.phase[s] = "Failed"]
               /\ UNCHANGED hostVGs
    /\ UNCHANGED <<PassVars, registry>>

\* the pass adds its device class to its copy and saves the copy
Pass_SaveLVMD(s) ==
    /\ fnOut.fn = "passes"
    /\ fnOut.at[s] = "added"
    /\ LET classes == IF HasClass(fnOut.config[s], s)
                      THEN fnOut.config[s]
                      ELSE Append(fnOut.config[s], ClassOf(s))
       IN  \E saveOk \in BOOLEAN :
              IF saveOk
              THEN /\ registry' = [exists |-> TRUE, classes |-> classes]
                   /\ fnOut' = [fnOut EXCEPT !.at[s] = "saved", !.config[s] = classes]
              ELSE /\ fnOut' = [fnOut EXCEPT !.at[s] = "failed", !.phase[s] = "Failed"]
                   /\ UNCHANGED registry
    /\ UNCHANGED <<PassVars, hostVGs>>

\* the pass writes Ready and returns
Pass_Ready(s) ==
    /\ fnOut.fn = "passes"
    /\ fnOut.at[s] = "saved"
    /\ fnOut' = [fnOut EXCEPT !.at[s] = "done", !.phase[s] = "Ready"]
    /\ UNCHANGED <<PassVars, hostVGs, registry>>

NextTwoPasses ==
    \E s \in VGNames :
       \/ Pass_Load(s)
       \/ Pass_AddDevicesToVG(s)
       \/ Pass_SaveLVMD(s)
       \/ Pass_Ready(s)

SpecTwoPasses == InitTwoPasses /\ [][NextTwoPasses]_vars

BothPassesDone == \A s \in VGNames : fnOut.at[s] = "done"

SerialPassesKeepBoth ==
    (BothPassesDone /\ fnIn.MaxConcurrentReconciles = 1) =>
       \A s \in VGNames : HasClass(registry.classes, s)

\* the groups and the statuses are each pass's own
PassesShareOnlyTheFile ==
    \A s \in VGNames :
       /\ hostVGs[s] \subseteq {DeviceOf(s)}
       /\ (fnOut.at[s] \in {"added", "saved", "done"}) => (hostVGs[s] = {DeviceOf(s)})
       /\ (fnOut.at[s] = "done") <=> (fnOut.phase[s] = "Ready")

----------------------------------------------------------------------------
(* C25: the finalizer and the artifacts of the volume group. *)

\* something of the LVMVolumeGroup is on the host: its volume group, its
\* thin pool or its device class in the lvmd config
HostArtifacts ==
    \/ hostVGs[VGName] # {}
    \/ hostLV.exists
    \/ HasClass(registry.classes, VGName)

\* C25: whenever something of the LVMVolumeGroup is on the host the object
\* exists and carries the finalizer; a normal pass issues a wipe, a group or
\* thin-pool command or a write of the lvmd config only when the finalizer
\* was on the object before the pass started; and the pass that finds the
\* finalizer missing only updates the object and returns.
C25_FinalizerGuardsArtifacts ==
    /\ [](HostArtifacts => (vgObj.exists /\ vgObj.finalizer))
    /\ []((NormalPass /\ \E i \in Calls : trace[i].op \in HostMutations \cup LvmdWrites)
            => vgObj.finalizer)
    /\ [][(pc = "idle" /\ pc' = "load") => (vgObj.finalizer /\ UNCHANGED vgObj)]_vars
    /\ [][(pc = "idle" /\ vgObj.exists /\ ~vgObj.deleting /\ ~vgObj.finalizer
           /\ trace' # trace) =>
            /\ Len(trace') = 1
            /\ pc' = "idle"
            /\ UNCHANGED hostVars
            /\ \/ /\ trace'[1].op \in {"matchesThisNode", "createStatus"}
                  /\ UNCHANGED vgObj
               \/ /\ trace'[1].op = "addFinalizer"
                  /\ vgObj'.finalizer = trace'[1].ok
                  /\ result' = Result(FALSE, 0, ~trace'[1].ok)]_vars
    /\ [][(pc # "idle" /\ NormalPass /\ pc' # "idle") => UNCHANGED vgObj]_vars

\* the finalizer was added by one pass and a later pass created the group
C25_Witness ==
    /\ NormalPass
    /\ Succeeded("/usr/sbin/vgcreate")
    /\ vgObj.finalizer
    /\ HostArtifacts

----------------------------------------------------------------------------
(* C26: failures of the host commands of a normal pass. *)

\* the steps of the normal pass that run a host command or read its report
\* and end the pass only when that failed
HostSteps == {"lsblk", "wipe", "select", "listvgs", "addvg", "addtp"}

\* the step ends a normal pass at one of the host steps by returning
HostStepEndsPass ==
    /\ NormalPass
    /\ pc \in HostSteps
    /\ pc' = "idle"
    /\ result'.kind = "returned"

RaisedWarning(tr) == \E i \in 1..Len(tr) : tr[i].op = "WarningEvent"

\* C26: a normal pass that ends because the listing of the block devices,
\* the wipe, the listing after the wipe, the device selection, the listing
\* of the volume groups, the group create/extend or the thin-pool
\* create/extend failed returns a failure and has raised a warning event.
C26_HostFailureRaisesEvent ==
    [][HostStepEndsPass => (result' = Failure /\ RaisedWarning(trace'))]_vars

\* every such pass returns the failure, and the next pass may start
HostFailureFailsThePass ==
    [][HostStepEndsPass =>
          /\ result' = Failure
          /\ vgObj' = vgObj /\ vgObj.exists /\ ~vgObj.deleting /\ vgObj.finalizer]_vars

\* the failures of the group and thin-pool commands do raise the event
GroupAndPoolFailureRaiseEvent ==
    [][(HostStepEndsPass /\ pc \in {"addvg", "addtp"}) => RaisedWarning(trace')]_vars

\* the failures before them never do, and leave the status as it was
EarlyFailureIsSilent ==
    [][(HostStepEndsPass /\ pc \in {"lsblk", "wipe", "select", "listvgs"}) =>
          (~RaisedWarning(trace') /\ UNCHANGED nodeStatus)]_vars

----------------------------------------------------------------------------
(* C27, C28: what filterMatchingDevices answers for the paths of the selector. *)

\* the path resolves to a block device of the node that is not yet a
\* physical volume of the group
ResolvesNew(path) ==
    LET diskName == EvalSymlinks(path) IN
    /\ diskName # ""
    /\ ~isDeviceAlreadyPartOfVG(fnIn.vgs, diskName, fnIn.name)
    /\ hasExactDisk(ListBlockDevices, diskName).ok

\* the path resolves to a physical volume of the group
InGroup(path) ==
    LET diskName == EvalSymlinks(path) IN
    /\ diskName # ""
    /\ isDeviceAlreadyPartOfVG(fnIn.vgs, diskName, fnIn.name)

ConfiguredPaths == SeqToSet(fnIn.sel.Paths \o fnIn.sel.OptionalPaths)

AtLeast1Failure == fnOut.err = "atleast1"

NothingUsable == \A p \in ConfiguredPaths : ~ResolvesNew(p) /\ ~InGroup(p)

\* C27 as stated: the 'at least 1 valid device' failure is the answer
\* exactly when optional paths are given and no configured path resolved to
\* a new device or was in the group already; never with a required path;
\* and a selector with no path at all is answered with no device and no
\* failure.
C27_AtLeastOneExactly ==
    (fnOut.fn = "filterMatchingDevices" /\ fnIn.sel.set) =>
        /\ AtLeast1Failure <=> (Len(fnIn.sel.OptionalPaths) > 0 /\ NothingUsable)
        /\ Len(fnIn.sel.Paths) > 0 => ~AtLeast1Failure
        /\ (fnIn.sel.Paths = <<>> /\ fnIn.sel.OptionalPaths = <<>>) =>
              (fnOut.err = "" /\ fnOut.devs = <<>>)

\* C27 amended: the failure is the answer exactly when, besides, no
\* required path is configured and no path is repeated (with a required
\* path the answer is then the failure of that path, with a repeated path
\* the failure of the duplicates check).
C27_AtLeastOneWithoutRequired ==
    (fnOut.fn = "filterMatchingDevices" /\ fnIn.sel.set) =>
        /\ AtLeast1Failure <=> /\ Len(fnIn.sel.OptionalPaths) > 0
                               /\ Len(fnIn.sel.Paths) = 0
                               /\ Repeated = {}
                               /\ NothingUsable
        /\ Len(fnIn.sel.Paths) > 0 => ~AtLeast1Failure
        /\ (fnIn.sel.Paths = <<>> /\ fnIn.sel.OptionalPaths = <<>>) =>
              (fnOut.err = "" /\ fnOut.devs = <<>> /\ ~fnOut.failed)

\* only optional paths, none of them usable: the failure
C27_Witness ==
    /\ fnOut.fn = "filterMatchingDevices"
    /\ fnIn.sel.Paths = <<>>
    /\ Len(fnIn.sel.OptionalPaths) > 0
    /\ NothingUsable
    /\ AtLeast1Failure
    /\ fnOut.failed

\* only optional paths, none new but one in the group already: no failure
OptionalInGroupIsFine ==
    /\ fnOut.fn = "filterMatchingDevices"
    /\ fnIn.sel.Paths = <<>>
    /\ \E p \in ConfiguredPaths : InGroup(p)
    /\ \A p \in ConfiguredPaths : ~ResolvesNew(p)
    /\ fnOut.err = ""
    /\ fnOut.devs = <<>>


\* the path neither resolves to a new device nor to one of the group: its
\* link does not resolve, or the block devices do not list what it names
Broken(path) == ~ResolvesNew(path) /\ ~InGroup(path)

RequiredBroken == \E i \in 1..Len(fnIn.sel.Paths) : Broken(fnIn.sel.Paths[i])

ResolutionFailures == {"symlink", "notfound"}

DevicePaths(devs) == [i \in 1..Len(devs) |-> devs[i].DevicePath]

\* C28: a required path that does not resolve or is not among the block
\* devices makes the selection fail with no device; an optional path with
\* the same problem is skipped: it never makes the selection fail that way,
\* and the paths that did resolve, required and optional, are all returned
\* (required first, each list in its order).
C28_RequiredFatalOptionalSkipped ==
    (fnOut.fn = "filterMatchingDevices" /\ fnIn.sel.set /\ Repeated = {}) =>
        /\ RequiredBroken =>
              /\ fnOut.failed
              /\ fnOut.err \in ResolutionFailures
              /\ fnOut.devs = <<>>
        /\ ~RequiredBroken =>
              /\ fnOut.err \notin ResolutionFailures
              /\ (\E p \in ConfiguredPaths : ResolvesNew(p)) => fnOut.err = ""
              /\ fnOut.err = "" =>
                    DevicePaths(fnOut.devs) =
                       SelectSeq(fnIn.sel.Paths \o fnIn.sel.OptionalPaths, ResolvesNew)

\* an optional path is broken, and the required and the other optional
\* path that resolved are returned
C28_Witness ==
    /\ fnOut.fn = "filterMatchingDevices"
    /\ fnOut.err = ""
    /\ \E i \in 1..Len(fnIn.sel.OptionalPaths) : Broken(fnIn.sel.OptionalPaths[i])
    /\ \E i \in 1..Len(fnIn.sel.OptionalPaths) : ResolvesNew(fnIn.sel.OptionalPaths[i])
    /\ \E i \in 1..Len(fnIn.sel.Paths) : ResolvesNew(fnIn.sel.Paths[i])
    /\ Len(fnOut.devs) = 2

\* a required path is broken: the failure, although another path resolved
RequiredBrokenFails ==
    /\ fnOut.fn = "filterMatchingDevices"
    /\ RequiredBroken
    /\ \E p \in ConfiguredPaths : ResolvesNew(p)
    /\ fnOut.failed
    /\ fnOut.devs = <<>>

----------------------------------------------------------------------------
(* C29: the wipe, its gate and the listing after it. *)

CountOp(op) == Cardinality({i \in Calls : trace[i].op = op})

\* no device selector, or force-wipe not switched on
WipeGated == ~specSel.set \/ ~specSel.ForceWipe

\* the place of the last listing of the block devices in the trace (0: none)
LastListing ==
    IF Issued("lsblk") THEN CHOOSE i \in Calls : /\ trace[i].op = "lsblk"
                                                 /\ \A j \in Calls : trace[j].op = "lsblk" => j <= i
    ELSE 0

\* behind the gate nothing is wiped, no mapping is removed and the block
\* devices are listed once
GateHolds ==
    (NormalPass /\ WipeGated) =>
        /\ ~Issued("wipefs")
        /\ ~Issued("dmsetup")
        /\ CountOp("lsblk") <= 1
        /\ pc \notin {"load", "lsblk", "idle"} => CountOp("lsblk") = 1

\* the selection works on the listing made after the last wipe, which shows
\* the host as the wipes left it
SelectsOnFreshListing ==
    (NormalPass /\ pc = "select") =>
        /\ \A i \in Calls :
              ((trace[i].op = "wipefs" /\ trace[i].ok) \/ trace[i].op = "dmsetup")
                 => i < LastListing
        /\ trace[LastListing].ok
        /\ catalog = ListBlockDevices

\* a second listing that fails ends the pass there
FailedRelistAborts ==
    (NormalPass /\ CountOp("lsblk") = 2 /\ ~trace[LastListing].ok) =>
        /\ LastListing = Len(trace)
        /\ pc = "idle"
        /\ result \in {Failure, Crashed}
        /\ devices = <<>>

\* C29 as stated: behind the gate no wipe, no removal of a mapping and one
\* listing; the block devices are listed a second time exactly when a
\* device was wiped; the selection uses the listing made after the last
\* wipe; a second listing that fails ends the pass before the selection.
C29_RelistIffWiped ==
    /\ GateHolds
    /\ NormalPass => (CountOp("lsblk") = 2 <=> Succeeded("wipefs"))
    /\ SelectsOnFreshListing
    /\ FailedRelistAborts

\* the wipe ended with the failure of a required path
RequiredWipeFailed ==
    \E i \in Calls : /\ trace[i].op = "wipefs"
                     /\ ~trace[i].ok
                     /\ trace[i].note \in SeqToSet(specSel.Paths)

\* C29 amended: the block devices are listed a second time exactly when a
\* device was wiped and no wipe of a required path failed (that failure
\* ends the pass at once, whatever was wiped before it).
C29_RelistIffWipedAndGoingOn ==
    /\ GateHolds
    /\ NormalPass => /\ CountOp("lsblk") = 2 <=> (Succeeded("wipefs") /\ ~RequiredWipeFailed)
                     /\ CountOp("lsblk") <= 2
                     /\ RequiredWipeFailed => /\ LastCall.op = "wipefs"
                                              /\ pc = "idle"
                                              /\ result \in {Failure, Crashed}
    /\ SelectsOnFreshListing
    /\ FailedRelistAborts

\* a disk with a stale mapping was wiped, the mapping removed, the block
\* devices listed again, and the pass created the group on that disk
C29_Witness ==
    /\ NormalPass
    /\ Succeeded("wipefs")
    /\ Succeeded("dmsetup")
    /\ CountOp("lsblk") = 2
    /\ \E i \in Calls : /\ trace[i].op = "/usr/sbin/vgcreate"
                        /\ trace[i].ok
                        /\ i > LastListing
    /\ "/dev/sdc" \in hostVGs[VGName]

----------------------------------------------------------------------------
(* C30: what a failed removal of a device-mapper mapping does to the pass. *)

\* the call at i is the removal of a mapping of the wiped device path
RemovalFor(i, path) ==
    /\ i \in Calls
    /\ i > 1
    /\ trace[i].op = "dmsetup"
    /\ trace[i - 1].op = "wipefs"
    /\ trace[i - 1].note = path

\* the pass went on after the call at i
WentOnAfter(i) == Len(trace) > i \/ pc \notin {"idle", "wipe"}

\* the pass ended with the call at i as its last one, returning the failure
AbortedAt(i) == Len(trace) = i /\ pc = "idle" /\ result \in {Failure, Crashed}

\* C30: an answer 'no such mapping' is no failure: the pass goes on; any
\* other error of the removal ends the pass when the wiped path is a
\* required one and lets it go on when the path is an optional one.
C30_RemovalErrorFatalForRequired ==
    NormalPass =>
       \A i \in Calls, path \in SeqToSet(specSel.Paths \o specSel.OptionalPaths) :
          RemovalFor(i, path) =>
             /\ trace[i].note = "absent" => WentOnAfter(i) \/ result = Crashed
             /\ (trace[i].note = "error" /\ path \in SeqToSet(specSel.Paths)) => AbortedAt(i)
             /\ (trace[i].note = "error" /\ path \in SeqToSet(specSel.OptionalPaths)) =>
                   WentOnAfter(i) \/ result = Crashed

\* no answer of the removal ends the pass: after it the pass wipes the next
\* path or lists the block devices again
RemovalNeverEndsThePass ==
    NormalPass =>
       \A i \in Calls :
          trace[i].op = "dmsetup" =>
             /\ Len(trace) > i
             /\ trace[i + 1].op \in {"wipefs", "lsblk"}

\* the removal for the optional /dev/sdc failed and the pass went on
OptionalRemovalErrorLogged ==
    /\ NormalPass
    /\ \E i \in Calls : /\ RemovalFor(i, "/dev/sdc")
                        /\ trace[i].note = "error"
                        /\ "/dev/sdc" \in SeqToSet(specSel.OptionalPaths)
                        /\ Succeeded("/usr/sbin/vgcreate")

----------------------------------------------------------------------------
(* C31: the wipe step on its own, for every selector of up to MaxPaths
   required and MaxPaths optional disks.  The pass stands right after the
   listing of the block devices (vgmanager_controller.go 174-179). *)

InitWipe ==
    /\ vgObj = [exists |-> TRUE, deleting |-> FALSE, finalizer |-> TRUE, nodeSelector |-> "none"]
    /\ specTP = NoTP
    /\ \E paths \in SeqsUpTo(KNames, MaxPaths), optional \in SeqsUpTo(KNames, MaxPaths),
          force \in BOOLEAN : specSel = Selector(paths, optional, force)
    /\ present = KNames
    /\ \E d \in {{}, {"/dev/sda"}} :
          /\ nodeStatus = [EmptyStatus EXCEPT !.devices = d,
                                              !.phase = IF d = {} THEN "" ELSE "Ready"]
          /\ hostVGs = [n \in VGNames |-> IF n = OtherVG THEN {} ELSE d]
          /\ registry = IF d = {} THEN [exists |-> FALSE, classes |-> <<>>]
                        ELSE [exists |-> TRUE, classes |-> <<NewClass>>]
    /\ hostLV = NoLV
    /\ mappings = {"/dev/dm-0"}
    /\ pc = "wipe"
    /\ lvmdConfig = [nil |-> FALSE, classes |-> registry.classes]
    /\ lvmdConfigWasMissing = ~registry.exists
    /\ catalog = ListBlockDevices
    /\ devices = <<>>
    /\ vgs = <<>>
    /\ result = NoResult
    /\ trace = <<Call("reconcile", TRUE), Call("lvmd.Load", TRUE), Call("lsblk", TRUE)>>
    /\ cleanPasses = 0
    /\ fnIn = NoFn
    /\ fnOut = NoFn

SpecWipe == InitWipe /\ [][reconcile_Wipe]_vars

\* the wipe step hands the path to Wipefs.Wipe: it is a listed disk and the
\* node status does not list it as a device of the group
HandedToWipe(path) ==
    /\ ~isDeviceAlreadyPartOfVG(StatusVGs, path, VGName)
    /\ path \in present

WipeAttempted(path) == \E j \in Calls : trace[j].op = "wipefs" /\ trace[j].note = path

RequiredSet == SeqToSet(specSel.Paths)

OptionalSet == SeqToSet(specSel.OptionalPaths)

\* C31: a wipe that fails on a required path ends the wipe step and the
\* pass at once: it is the last call, no later path is wiped, the block
\* devices are not listed again and the pass returns the failure.  A wipe
\* that fails on an optional path is only logged: every other optional path
\* is still handed to the wipe and the step itself returns no failure (the
\* pass goes on to the second listing or to the selection).
C31_RequiredWipeFatalOptionalLogged ==
    (NormalPass /\ pc # "wipe") =>
       \A i \in Calls :
          (trace[i].op = "wipefs" /\ ~trace[i].ok) =>
             IF trace[i].note \in RequiredSet
             THEN /\ Len(trace) = i
                  /\ pc = "idle"
                  /\ result \in {Failure, Crashed}
                  /\ CountOp("lsblk") = 1
                  /\ \A q \in OptionalSet \ RequiredSet : ~WipeAttempted(q)
             ELSE /\ \A q \in OptionalSet : HandedToWipe(q) => WipeAttempted(q)
                  /\ \A q \in RequiredSet : HandedToWipe(q) => Succeeded("wipefs")
                  /\ \/ pc # "idle"
                     \/ result = Crashed
                     \/ Len(trace) > i + 1
                     \/ (LastCall.op = "lsblk" /\ ~LastCall.ok /\ CountOp("lsblk") = 2)

\* the wipe of the first optional disk failed, the second optional disk was
\* wiped after it, and the pass went on to the selection
C31_Witness ==
    /\ NormalPass
    /\ pc = "select"
    /\ Len(specSel.OptionalPaths) = 2
    /\ \E i \in Calls, j \in Calls :
          /\ i < j
          /\ trace[i].op = "wipefs" /\ ~trace[i].ok /\ trace[i].note = specSel.OptionalPaths[1]
          /\ trace[j].op = "wipefs" /\ trace[j].ok /\ trace[j].note = specSel.OptionalPaths[2]
    /\ CountOp("lsblk") = 2

\* the wipe of the second required disk failed after the first was wiped
RequiredWipeAborts ==
    /\ NormalPass
    /\ pc = "idle"
    /\ result = Failure
    /\ Len(specSel.Paths) = 2
    /\ Len(specSel.OptionalPaths) > 0
    /\ Succeeded("wipefs")
    /\ LastCall.op = "wipefs" /\ ~LastCall.ok /\ LastCall.note = specSel.Paths[2]

----------------------------------------------------------------------------
(* C32: addThinPoolToVG on its own, for every logical volume the group may
   hold under the name of the thin pool.  The pass stands right after the
   group was created or extended (vgmanager_controller.go 259-269). *)

\* the sizes of a logical volume found under the name of the thin pool
FoundSizes == {2, 5, 8, 10}

InitThinPool ==
    /\ vgObj = [exists |-> TRUE, deleting |-> FALSE, finalizer |-> TRUE, nodeSelector |-> "none"]
    /\ specTP \in {[set |-> TRUE, Name |-> "tp1", SizePercent |-> p] :
                      p \in {ThinPoolPercent, RaisedPercent}}
    /\ specSel = NoSelector
    /\ nodeStatus = [EmptyStatus EXCEPT !.phase = "Progressing"]
    /\ present = KNames
    /\ \E d \in {{"/dev/sda"}, {"/dev/sda", "/dev/sdb"}} :
          hostVGs = [n \in VGNames |-> IF n = OtherVG THEN {"/dev/sdc"} ELSE d]
    /\ hostLV \in {NoLV} \cup
                  {[exists |-> TRUE, thin |-> t, active |-> TRUE, size |-> s, meta |-> 0] :
                      t \in BOOLEAN, s \in FoundSizes}
    /\ mappings = {"/dev/dm-0"}
    /\ registry \in {[exists |-> FALSE, classes |-> <<>>],
                     [exists |-> TRUE, classes |-> <<OtherClass>>]}
    /\ pc = "addtp"
    /\ lvmdConfig = [nil |-> FALSE, classes |-> registry.classes]
    /\ lvmdConfigWasMissing = ~registry.exists
    /\ catalog = ListBlockDevices
    /\ devices = <<BD("/dev/sda", <<>>)>>
    /\ vgs = <<[Name |-> OtherVG, PVs |-> {"/dev/sdc"}]>>
    /\ result = NoResult
    /\ trace = <<Call("reconcile", TRUE), Call("lvmd.Load", TRUE), Call("lsblk", TRUE),
                 Call("vgs", TRUE), StatusCall("Progressing", TRUE),
                 Call("/usr/sbin/vgcreate", TRUE)>>
    /\ cleanPasses = 0
    /\ fnIn = NoFn
    /\ fnOut = NoFn

SpecThinPool == InitThinPool /\ [][reconcile_AddThinPool]_vars

\* the calls the step adds to the trace
NewCalls == SubSeq(trace', Len(trace) + 1, Len(trace'))

CountIn(calls, op) == Cardinality({i \in 1..Len(calls) : calls[i].op = op})

\* C32: a logical volume of the thin pool's name that is no thin pool makes
\* addThinPoolToVG fail with neither a create nor an extend; with no
\* logical volume of that name (and the list read) the create is issued
\* exactly once, for the configured percent of the group; with a thin pool
\* of that name no create is issued.
C32_ThinPoolCreateOnlyWhenAbsent ==
    [][(pc = "addtp" /\ specTP.set) =>
          /\ (hostLV.exists /\ ~hostLV.thin) =>
                /\ CountIn(NewCalls, "lvcreate") = 0
                /\ CountIn(NewCalls, "lvextend") = 0
                /\ result' = Failure
                /\ pc' = "idle"
                /\ hostLV' = hostLV
          /\ (~hostLV.exists /\ NewCalls[1].ok) =>
                /\ CountIn(NewCalls, "lvcreate") = 1
                /\ CountIn(NewCalls, "lvextend") = 0
                /\ \A i \in 1..Len(NewCalls) :
                      (NewCalls[i].op = "lvcreate" /\ NewCalls[i].ok) =>
                         /\ hostLV'.thin
                         /\ hostLV'.size = PoolSize(specTP.SizePercent)
          /\ (hostLV.exists /\ hostLV.thin) => CountIn(NewCalls, "lvcreate") = 0
          /\ NewCalls[1].op = "lvs"]_vars

\* a logical volume named like the pool is no thin pool: the pass failed
\* after the list, with the warning event and nothing created or extended
C32_Witness ==
    /\ NormalPass
    /\ hostLV.exists
    /\ ~hostLV.thin
    /\ pc = "idle"
    /\ result = Failure
    /\ Succeeded("lvs")
    /\ ~Issued("lvcreate")
    /\ ~Issued("lvextend")
    /\ \E i \in Calls : trace[i].op = "WarningEvent" /\ trace[i].note = "ThinPoolCreateOrExtendFailed"

\* no logical volume of that name: the pool was created
ThinPoolCreatedOnce ==
    /\ NormalPass
    /\ pc = "validate"
    /\ CountOp("lvcreate") = 1
    /\ hostLV.thin

----------------------------------------------------------------------------
(* C33: the lookup of the volume group in extendThinPool. *)

\* C33: when LVM.GetVG answers that the group is not found, extendThinPool
\* returns no error and asks for no extension; when the lookup fails in any
\* other way it returns the failure, and asks for no extension either.
C33_GroupNotFoundIsNoOp ==
    fnOut.fn = "extendThinPool" =>
        /\ fnIn.getvg = VGNotFound => (~fnOut.err /\ ~fnOut.extend)
        /\ fnIn.getvg = VGFailed => (fnOut.err /\ ~fnOut.extend)

\* the group is not found although the pool would have to grow
C33_Witness ==
    /\ fnOut.fn = "extendThinPool"
    /\ fnIn.getvg = VGNotFound
    /\ fnIn.sizePercent = 80
    /\ fnIn.extendOk
    /\ ~fnOut.err
    /\ ~fnOut.extend

\* the lookup failed otherwise
LookupFailureReturned ==
    /\ fnOut.fn = "extendThinPool"
    /\ fnIn.getvg = VGFailed
    /\ fnOut.err


\* ---------------------------------------------------------------------
\* C34: node affinity

\* the pass that ended on the node selector
MismatchPass == trace = <<CallNote("matchesThisNode", TRUE, "mismatch")>>

\* C34: an LVMVolumeGroup whose node selector does not match this node is
\* left alone: its passes end at the node match, so no host command is run,
\* the lvmd config is neither loaded nor written, no node status is created
\* or changed, no finalizer is added, and the pass returns success without a
\* requeue; without a selector every node matches and no pass ends at the
\* node match.
C34_NodeAffinity ==
    /\ [](vgObj.nodeSelector = "mismatch" =>
            /\ pc = "idle"
            /\ trace \in {<<>>, <<Call("matchesThisNode", FALSE)>>,
                          <<CallNote("matchesThisNode", TRUE, "mismatch")>>}
            /\ ~vgObj.finalizer
            /\ ~nodeStatus.obj
            /\ ~HostArtifacts
            /\ (MismatchPass => result = Result(FALSE, 0, FALSE)))
    /\ [][(vgObj.exists /\ vgObj.nodeSelector = "mismatch" /\ trace' # trace)
            => UNCHANGED <<apiVars, hostVars>>]_vars
    /\ [](matchesThisNode("none", TRUE) = [matches |-> TRUE, err |-> FALSE])
    /\ [](vgObj.nodeSelector = "none" => ~MismatchPass)

\* a pass for an LVMVolumeGroup of another node has returned
C34_Witness ==
    /\ vgObj.exists
    /\ vgObj.nodeSelector = "mismatch"
    /\ MismatchPass
    /\ result = Success


\* ---------------------------------------------------------------------
\* The filter step on its own: getAvailableDevicesForVG over a listing of
\* block devices, a selector and the answers of the filters

\* the filters of FilterMap
FilterNames == {"notMounted", "minimumSize"}

\* the orders in which the range over FilterMap can visit the filters
FilterOrders == {<<"notMounted", "minimumSize">>, <<"minimumSize", "notMounted">>}

\* what a filter answers for a device
FilterAnswers == {"valid", "invalid", "error"}

\* the kernel names a listing can hold
ListedKNames == KNames \cup {"/dev/dm-0"}

\* the loop over FilterMap for one device: "valid", or the answer of the
\* first filter in the order that does not answer valid
RECURSIVE filterVerdict(_, _, _)
filterVerdict(kname, answers, order) ==
    IF order = <<>> THEN "valid"
    ELSE IF answers[kname][Head(order)] # "valid" THEN answers[kname][Head(order)]
    ELSE filterVerdict(kname, answers, Tail(order))

\* the devices that reach the append of filterAvailableDevices
PassingBy(answers, order) ==
    {k \in ListedKNames : filterVerdict(k, answers, order) = "valid"}

Reverse(s) == [i \in 1..Len(s) |-> s[Len(s) + 1 - i]]

\* the kernel names of a list of devices
KNamesOf(devs) == {devs[i].KName : i \in 1..Len(devs)}

\* every device of a listing, the children included
RECURSIVE NodesOf(_)
NodesOf(blockDevices) ==
    IF blockDevices = <<>> THEN {}
    ELSE {Head(blockDevices)} \cup NodesOf(Head(blockDevices).Children)
         \cup NodesOf(Tail(blockDevices))

FilterInputs ==
    {[kind |-> "filter", tree |-> BlockDevicesOf(KNames, m), answers |-> a, order |-> o,
      sel |-> x, name |-> VGName, vgs |-> <<>>, devs |-> <<>>] :
        m \in {{}, {"/dev/dm-0"}},
        a \in [ListedKNames -> [FilterNames -> FilterAnswers]],
        o \in FilterOrders,
        x \in {NoSelector, Selector(<<"/dev/sdc">>, <<>>, FALSE),
               Selector(<<"/dev/sda">>, <<"/dev/sdc">>, FALSE)}}

InitFilter ==
    /\ vgObj = [exists |-> TRUE, deleting |-> FALSE, finalizer |-> TRUE, nodeSelector |-> "none"]
    /\ specTP = NoTP
    /\ specSel = NoSelector
    /\ nodeStatus = EmptyStatus
    /\ fnIn \in FilterInputs
    /\ present = KNames
    /\ hostVGs = [n \in VGNames |-> {}]
    /\ hostLV = NoLV
    /\ mappings = {"/dev/dm-0"}
    /\ registry = [exists |-> FALSE, classes |-> <<>>]
    /\ pc = "idle"
    /\ lvmdConfig = NilConfig
    /\ lvmdConfigWasMissing = FALSE
    /\ catalog = <<>>
    /\ devices = <<>>
    /\ vgs = <<>>
    /\ result = NoResult
    /\ trace = <<>>
    /\ cleanPasses = 0
    /\ fnOut = NoOut

\* getAvailableDevicesForVG; again: the same with the devices and the
\* filters visited in the opposite order
Apply_getAvailableDevicesForVG ==
    /\ fnIn.kind = "filter"
    /\ LET matching == filterMatchingDevices(fnIn.tree, fnIn.vgs, fnIn.name, fnIn.sel)
           first    == filterAvailableDevices(matching.devs,
                                              PassingBy(fnIn.answers, fnIn.order))
           second   == filterAvailableDevices(Reverse(matching.devs),
                                              PassingBy(fnIn.answers, Reverse(fnIn.order)))
       IN  fnOut' = Out("getAvailableDevicesForVG", matching.err # "", "", <<>>,
                        IF matching.err # "" THEN <<>> ELSE first,
                        [failed |-> matching.err # "",
                         devs   |-> IF matching.err # "" THEN <<>> ELSE second])
                    @@ [matching |-> matching.devs]
    /\ UNCHANGED <<mainVars, fnIn>>

SpecFilter == InitFilter /\ [][Apply_getAvailableDevicesForVG]_vars

\* the filter step has answered
Filtered == fnOut.fn = "getAvailableDevicesForVG"

\* ---------------------------------------------------------------------
\* C35: a device with children is not returned as available

\* C35: no device the filter step returns has children, whatever the
\* filters answer for it.
C35_ContainerNeverReturned ==
    Filtered => \A i \in 1..Len(fnOut.devs) : fnOut.devs[i].Children = <<>>

\* the child of /dev/sdc is never returned (violated: it is)
NoDescendantReturned ==
    Filtered => \A i \in 1..Len(fnOut.devs) : fnOut.devs[i].KName # "/dev/dm-0"

\* a device with children is returned only when every filter answers valid
\* for it
ContainerReturnedOnlyWhenValid ==
    Filtered => \A i \in 1..Len(fnOut.devs) :
        fnOut.devs[i].Children # <<>> =>
            \A f \in FilterNames : fnIn.answers[fnOut.devs[i].KName][f] = "valid"


\* ---------------------------------------------------------------------
\* C36: the filters decide device by device

\* the devices handed to the filter step for which every filter answers
\* valid
Eligible ==
    {d.KName : d \in {n \in NodesOf(fnOut.matching) :
                        \A f \in FilterNames : fnIn.answers[n.KName][f] = "valid"}}

\* C36: the filter step returns exactly the devices for which every filter
\* answers valid without an error, each once; a filter that answers invalid
\* or an error for a device leaves the siblings and the children of that
\* device where they are, the step itself never fails, and the devices
\* returned are the same when the devices and the filters are visited in
\* the opposite order.
C36_PerDeviceFiltering ==
    (Filtered /\ ~fnOut.failed) =>
        /\ KNamesOf(fnOut.devs) = Eligible
        /\ Len(fnOut.devs) = Cardinality(Eligible)
        /\ KNamesOf(fnOut.again.devs) = KNamesOf(fnOut.devs)
        /\ ~fnOut.again.failed

\* /dev/sdc fails on an error of a filter and /dev/sda on the answer of
\* one, and their sibling /dev/sdb and the child of /dev/sdc are returned
C36_Witness ==
    /\ Filtered
    /\ ~fnIn.sel.set
    /\ fnIn.answers["/dev/sdc"]["notMounted"] = "error"
    /\ fnIn.answers["/dev/sda"]["minimumSize"] = "invalid"
    /\ KNamesOf(fnOut.devs) = {"/dev/sdb", "/dev/dm-0"}

\* the selection fails before any filter is asked: the only failure of the
\* step
OnlySelectionFails ==
    (Filtered /\ fnOut.failed) => fnIn.sel.set


\* ---------------------------------------------------------------------
\* C38: with a selector only the configured devices are returned

\* the devices the paths of the selector lead to
ConfiguredKNames ==
    {LinkTarget(fnIn.sel.Paths[i]) : i \in 1..Len(fnIn.sel.Paths)}
    \cup {LinkTarget(fnIn.sel.OptionalPaths[i]) : i \in 1..Len(fnIn.sel.OptionalPaths)}

\* C38: with required or optional paths in the selector, every device the
\* filter step returns for create or extend is a device one of the paths
\* names: no child of such a device and no other listed device is returned.
C38_OnlyConfiguredDevices ==
    (Filtered /\ fnIn.sel.set) => KNamesOf(fnOut.devs) \subseteq ConfiguredKNames

\* no listed device outside the configured devices and their children is
\* returned
OnlyConfiguredSubtrees ==
    (Filtered /\ fnIn.sel.set) =>
        KNamesOf(fnOut.devs) \subseteq
            {n.KName : n \in NodesOf(fnOut.matching)}

\* the devices handed to the filter step are the configured ones
MatchingAreConfigured ==
    (Filtered /\ fnIn.sel.set) => KNamesOf(fnOut.matching) \subseteq ConfiguredKNames


\* ---------------------------------------------------------------------
\* The listing of volume groups on its own: LVM.ListVGs and LVM.GetVG over
\* the report of vgs and the report of pvs

\* the names of the physical volumes of the reports
PvNamesOfReport == {"/dev/sda", "/dev/sdb", "/dev/sdc", "/dev/sdd", "/dev/sde"}

\* the physical volumes in the order of the report
PvOrder == <<"/dev/sda", "/dev/sdb", "/dev/sdc", "/dev/sdd", "/dev/sde">>

\* the reports of vgs: the names of the groups
VgReports == {<<>>, <<VGName>>, <<OtherVG>>, <<VGName, OtherVG>>, <<OtherVG, VGName>>}

\* the names a group is looked up by
LookupNames == {VGName, OtherVG, "invalid-vg"}

\* the report of pvs for the owners: a physical volume with its vg_name
\* ("": of no group)
PvReport(owner) == [i \in 1..Len(PvOrder) |-> [Name |-> PvOrder[i], VgName |-> owner[PvOrder[i]]]]

\* pvs -S vgname=<name>: the physical volumes of the report with that
\* vg_name
ListPVs(pvReport, vgName) == SelectSeq(pvReport, LAMBDA pv : pv.VgName = vgName)

\* a lookup that answers an empty group for a name the report does not
\* have
GetVG_EmptyGroup(vgReport, pvReport, name) ==
    [err |-> "", vg |-> [Name |-> name, PVs |-> ListPVs(pvReport, name)]]

\* LVM.GetVG: the group of the report with that name and its physical
\* volumes, ErrVolumeGroupNotFound when the report has no such group
GetVG(vgReport, pvReport, name) ==
    IF \E i \in 1..Len(vgReport) : vgReport[i] = name
    THEN [err |-> "", vg |-> [Name |-> name, PVs |-> ListPVs(pvReport, name)]]
    ELSE [err |-> "ErrVolumeGroupNotFound", vg |-> [Name |-> "", PVs |-> <<>>]]

\* LVM.ListVGs over the two reports
ListVGsOf(vgReport, pvReport) ==
    [i \in 1..Len(vgReport) |-> [Name |-> vgReport[i], PVs |-> ListPVs(pvReport, vgReport[i])]]

ReportInputs ==
    {[kind |-> "report", vgReport |-> r, pvReport |-> PvReport(o), name |-> n,
      devs |-> <<>>, vgs |-> <<>>, sel |-> NoSelector] :
        r \in VgReports, o \in [PvNamesOfReport -> {VGName, OtherVG, ""}], n \in LookupNames}

InitReport ==
    /\ vgObj = [exists |-> TRUE, deleting |-> FALSE, finalizer |-> TRUE, nodeSelector |-> "none"]
    /\ specTP = NoTP
    /\ specSel = NoSelector
    /\ nodeStatus = EmptyStatus
    /\ fnIn \in ReportInputs
    /\ present = KNames
    /\ hostVGs = [n \in VGNames |-> {}]
    /\ hostLV = NoLV
    /\ mappings = {"/dev/dm-0"}
    /\ registry = [exists |-> FALSE, classes |-> <<>>]
    /\ pc = "idle"
    /\ lvmdConfig = NilConfig
    /\ lvmdConfigWasMissing = FALSE
    /\ catalog = <<>>
    /\ devices = <<>>
    /\ vgs = <<>>
    /\ result = NoResult
    /\ trace = <<>>
    /\ cleanPasses = 0
    /\ fnOut = NoOut

Apply_ListVGs ==
    /\ fnIn.kind = "report"
    /\ fnOut' = Out("ListVGs", FALSE, "", <<>>, <<>>, NoAgain)
                @@ [err |-> "", listed |-> ListVGsOf(fnIn.vgReport, fnIn.pvReport)]
    /\ UNCHANGED <<mainVars, fnIn>>

Apply_GetVG ==
    /\ fnIn.kind = "report"
    /\ LET r == GetVG(fnIn.vgReport, fnIn.pvReport, fnIn.name)
       IN  fnOut' = Out("GetVG", r.err # "", "", <<>>, <<>>, NoAgain)
                    @@ [err |-> r.err, listed |-> IF r.err = "" THEN <<r.vg>> ELSE <<>>]
    /\ UNCHANGED <<mainVars, fnIn>>

NextReport ==
    \/ Apply_ListVGs
    \/ Apply_GetVG

SpecReport == InitReport /\ [][NextReport]_vars

\* the names of the physical volumes of a group
MembersOf(vg) == {vg.PVs[i].Name : i \in 1..Len(vg.PVs)}

\* the physical volumes of the report of pvs whose vg_name is name
OwnedBy(name) ==
    {fnIn.pvReport[i].Name : i \in {j \in 1..Len(fnIn.pvReport) : fnIn.pvReport[j].VgName = name}}

InReport(name) == \E i \in 1..Len(fnIn.vgReport) : fnIn.vgReport[i] = name

\* the reports of TestGetVolumeGroup and TestListVolumeGroup
TestReports ==
    /\ fnIn.vgReport = <<VGName, OtherVG>>
    /\ OwnedBy(VGName) = {"/dev/sda", "/dev/sdb", "/dev/sdc"}
    /\ OwnedBy(OtherVG) = {"/dev/sdd", "/dev/sde"}

\* C37: ListVGs answers the groups of the report of vgs, one for one and in
\* its order, each with exactly the physical volumes whose vg_name is the
\* name of the group; GetVG answers the group of that name with these
\* members, and for a name the report does not have it answers
\* ErrVolumeGroupNotFound, not a group without members.
C37_GroupsWithTheirMembers ==
    /\ fnOut.fn = "ListVGs" =>
        /\ ~fnOut.failed
        /\ Len(fnOut.listed) = Len(fnIn.vgReport)
        /\ \A i \in 1..Len(fnOut.listed) :
            /\ fnOut.listed[i].Name = fnIn.vgReport[i]
            /\ MembersOf(fnOut.listed[i]) = OwnedBy(fnIn.vgReport[i])
            /\ Len(fnOut.listed[i].PVs) = Cardinality(OwnedBy(fnIn.vgReport[i]))
    /\ (fnOut.fn = "GetVG" /\ InReport(fnIn.name)) =>
        /\ ~fnOut.failed
        /\ Len(fnOut.listed) = 1
        /\ fnOut.listed[1].Name = fnIn.name
        /\ MembersOf(fnOut.listed[1]) = OwnedBy(fnIn.name)
    /\ (fnOut.fn = "GetVG" /\ ~InReport(fnIn.name)) =>
        /\ fnOut.failed
        /\ fnOut.err = "ErrVolumeGroupNotFound"
        /\ fnOut.listed = <<>>
    /\ (fnOut.fn = "GetVG" /\ TestReports) =>
        /\ fnIn.name = VGName => Len(fnOut.listed[1].PVs) = 3
        /\ fnIn.name = OtherVG => Len(fnOut.listed[1].PVs) = 2
        /\ fnIn.name = "invalid-vg" => fnOut.failed

\* the lookup of the test for a name that is not in the report, where
\* physical volumes of no group are reported too
C37_Witness ==
    /\ fnOut.fn = "GetVG"
    /\ fnIn.name = "invalid-vg"
    /\ fnIn.vgReport = <<VGName, OtherVG>>
    /\ OwnedBy("") # {}
    /\ fnOut.err = "ErrVolumeGroupNotFound"

\* the listing of the test is never answered (violated: it is, with 3 and
\* 2 physical volumes)
NoTestListing ==
    ~(fnOut.fn = "ListVGs" /\ TestReports /\ Len(fnOut.listed[1].PVs) = 3
      /\ Len(fnOut.listed[2].PVs) = 2)


\* ---------------------------------------------------------------------
\* C39: an LVMVolumeGroup without a thin-pool configuration

\* a pass for an LVMVolumeGroup without thinPoolConfig that has created or
\* extended the group
GroupChangedWithoutPool ==
    /\ ~specTP.set
    /\ NormalPass
    /\ Succeeded("/usr/sbin/vgcreate") \/ Succeeded("/usr/sbin/vgextend")

\* C39: a normal pass for an LVMVolumeGroup without a thin-pool
\* configuration that has created or extended the group lists, creates and
\* extends no logical volume and ends without a runtime fault: it returns to
\* the controller runtime, with Ready written and a device class without
\* the thin type saved.
C39_NoThinPoolPassCompletes ==
    /\ [](GroupChangedWithoutPool =>
            /\ ~Issued("lvs") /\ ~Issued("lvcreate") /\ ~Issued("lvextend")
            /\ (pc = "idle" => result # Panicked))
    /\ [][(GroupChangedWithoutPool /\ pc = "addtp") => pc' # "idle"]_vars

\* such a pass never gets as far as the lvmd config or the Ready status
NoPoolPassStopsAtThinPool ==
    [](GroupChangedWithoutPool =>
        /\ ~Issued("lvmd.Save")
        /\ ~\E i \in Calls : trace[i].op = "setStatus" /\ trace[i].note = "Ready"
        /\ pc \in {"addvg", "addtp", "idle"})


\* ---------------------------------------------------------------------
\* The lvmd config of a node with the device classes of other
\* LVMVolumeGroups: the deletion pass from its start, and the normal pass at
\* the device class

OwnClass == [Name |-> VGName, VolumeGroup |-> VGName, Type |-> "thin", ThinPool |-> "tp1"]

ThirdClass == [Name |-> "vg3", VolumeGroup |-> "vg3", Type |-> "", ThinPool |-> ""]

\* no two device classes have one name
UniqueNames(classes) ==
    \A i, j \in 1..Len(classes) : classes[i].Name = classes[j].Name => i = j

\* the lvmd configs a pass can find: no file, or up to three device classes
\* of different names in any order
RegistryChoices ==
    {[exists |-> FALSE, classes |-> <<>>]} \cup
    {[exists |-> TRUE, classes |-> c] :
        c \in {s \in SeqsUpTo({OwnClass, OtherClass, ThirdClass}, 3) : UniqueNames(s)}}

InitRegistry ==
    /\ specTP \in {NoTP, [set |-> TRUE, Name |-> "tp1", SizePercent |-> ThinPoolPercent]}
    /\ specSel = NoSelector
    /\ present = KNames
    /\ mappings = {"/dev/dm-0"}
    /\ registry \in RegistryChoices
    /\ catalog = <<>>
    /\ devices = <<>>
    /\ vgs = <<>>
    /\ result = NoResult
    /\ cleanPasses = 0
    /\ fnIn = NoFn
    /\ fnOut = NoFn
    /\ \/ /\ vgObj = [exists |-> TRUE, deleting |-> TRUE, finalizer |-> TRUE,
                      nodeSelector |-> "none"]
          /\ pc = "processDelete"
          /\ nodeStatus = EmptyStatus
          /\ \E d \in {{}, {"/dev/sda"}} :
                hostVGs = [n \in VGNames |-> IF n = OtherVG THEN {"/dev/sdc"} ELSE d]
          /\ hostLV \in {NoLV, [exists |-> TRUE, thin |-> TRUE, active |-> TRUE,
                                size |-> 5, meta |-> 0]}
          /\ hostLV.exists => hostVGs[VGName] # {}
          /\ lvmdConfig = NilConfig
          /\ lvmdConfigWasMissing = FALSE
          /\ trace = <<Call("processDelete", TRUE)>>
       \/ /\ vgObj = [exists |-> TRUE, deleting |-> FALSE, finalizer |-> TRUE,
                      nodeSelector |-> "none"]
          /\ pc = "lvmd"
          /\ nodeStatus = [EmptyStatus EXCEPT !.phase = "Progressing"]
          /\ hostVGs = [n \in VGNames |-> IF n = OtherVG THEN {"/dev/sdc"} ELSE {"/dev/sda"}]
          /\ hostLV = NoLV
          /\ lvmdConfig = [nil |-> FALSE, classes |-> registry.classes]
          /\ lvmdConfigWasMissing = ~registry.exists
          /\ trace = <<Call("reconcile", TRUE), Call("lvmd.Load", TRUE), Call("lsblk", TRUE),
                       Call("vgs", TRUE), StatusCall("Progressing", TRUE),
                       Call("/usr/sbin/vgcreate", TRUE)>>

NextRegistry ==
    \/ processDelete_Load
    \/ processDelete_GetVG
    \/ processDelete_LVExists
    \/ processDelete_DeleteLV
    \/ processDelete_DeleteVG
    \/ processDelete_UpdateLVMD
    \/ reconcile_SaveLVMD

SpecRegistry == InitRegistry /\ [][NextRegistry]_vars

\* ---------------------------------------------------------------------
\* C40: the device classes of other LVMVolumeGroups are kept

\* the device classes of the other LVMVolumeGroups, in their order
OthersIn(classes) == SelectSeq(classes, LAMBDA c : c.Name # VGName)

\* C40: no step of a pass changes the device classes of other
\* LVMVolumeGroups in the lvmd config, their content or their order; the
\* deletion pass that writes leaves exactly these and deletes the file iff
\* there is none of them; the normal pass that writes appends its own
\* device class when the config has none of its name and leaves the classes
\* as they are when it has; the names of the device classes stay unique.
C40_OtherEntriesPreserved ==
    /\ [][OthersIn(registry'.classes) = OthersIn(registry.classes)]_vars
    /\ [][(pc = "del_lvmd" /\ pc' = "del_status" /\ registry.exists) =>
            /\ registry'.classes = OthersIn(registry.classes)
            /\ registry'.exists <=> OthersIn(registry.classes) # <<>>
            /\ trace'[Len(trace')].op =
                 (IF OthersIn(registry.classes) = <<>> THEN "lvmd.Delete" ELSE "lvmd.Save")]_vars
    /\ [][(pc = "del_lvmd" /\ ~registry.exists) => UNCHANGED <<registry, trace>>]_vars
    /\ [][(pc = "lvmd" /\ registry' # registry) =>
            /\ registry'.exists
            /\ registry'.classes = IF HasClass(registry.classes, VGName)
                                   THEN registry.classes
                                   ELSE Append(registry.classes, NewClass)]_vars
    /\ [][registry' # registry => pc \in {"del_lvmd", "lvmd"}]_vars
    /\ [](UniqueNames(registry.classes))

\* the deletion pass has taken the device class of vg1 from between those
\* of two other LVMVolumeGroups and saved the file
C40_Witness ==
    /\ trace[1].op = "processDelete"
    /\ Succeeded("lvmd.Save")
    /\ pc = "del_status"
    /\ registry = [exists |-> TRUE, classes |-> <<OtherClass, ThirdClass>>]

\* no deletion pass deletes the file (violated: the pass that removes the
\* last device class does)
FileNeverDeleted ==
    ~(trace[1].op = "processDelete" /\ Succeeded("lvmd.Delete") /\ ~registry.exists)

\* no normal pass saves its device class behind two others (violated: the
\* device class is appended)
OwnClassNeverThird ==
    ~(trace[1].op = "reconcile" /\ Succeeded("lvmd.Save")
      /\ Len(registry.classes) = 3 /\ registry.classes[3].Name = VGName)

====
